---- MODULE Spec2Model ----
(***************************************************************************)
(* A model of the project-finance calculation services of fsbuilder:       *)
(* depreciation, loan amortisation, the profitability indicators, the      *)
(* statement composer (cash flow, income statement, balance sheet) and the *)
(* request validators in front of them.                                    *)
(*                                                                         *)
(* Numbers.  The services compute on JavaScript numbers.  The model        *)
(* computes on exact rationals [num, den] kept in lowest terms with        *)
(* den > 0, extended with the three non-finite values a division by zero   *)
(* can produce: den = 0 and num = 1 (Infinity), num = -1 (-Infinity),      *)
(* num = 0 (NaN).  Rounding of binary floating point and the sign of zero  *)
(* are not modelled.                                                       *)
(***************************************************************************)
EXTENDS Integers, Sequences, FiniteSets, TLC

VARIABLES
  \* depreciation kernel: one asset queried year after year
  asset, depYear, charges, accums,
  \* amortisation kernel: the loop of calculateAmortizationSchedule
  loan, balance, schedule,
  \* indicator calculator: the inputs of a call and what each function returned
  cashFlows, discountRate, totals, payback, discountedPayback, indicators,
  \* the loop of calculateIRR: the rate, the iteration and how the loop was left
  irrRate, irrIter, irrExit,
  \* the project a statement run or a request works on: its parameters and its
  \* investment, product, operating-cost and financing records
  project, investments, products, costs, financing,
  \* the loops of generateCashFlows, generateIncomeStatements and
  \* generateBalanceSheets: the rows pushed so far and the running values
  cashFlowRows, cumulativeCashFlow, incomeStatements,
  balanceSheets, retainedEarnings, cash,
  \* the response to the last HTTP request
  response,
  \* direct calls of calculateDebtService year after year, and of the ratio
  \* indicators: what each call returned
  debtServices, ratios,
  \* a scenario calculation: the scenario's assumptions and the saved result
  assumptions, scenarioResult,
  \* a sensitivity run: the variables asked for, the inputs extracted from the
  \* base cash flows, the inputs of the last variation, the results pushed so
  \* far and the tornado data
  variables, baseInputs, modifiedInputs, sensitivityResults, tornadoData,
  \* the PUT /products/:id/schedule requests in flight: the body of each and
  \* how far its handler has come
  requests

vars == <<asset, depYear, charges, accums, loan, balance, schedule,
          cashFlows, discountRate, totals, payback, discountedPayback, indicators,
          irrRate, irrIter, irrExit,
          project, investments, products, costs, financing,
          cashFlowRows, cumulativeCashFlow, incomeStatements,
          balanceSheets, retainedEarnings, cash, response,
          debtServices, ratios, assumptions, scenarioResult,
          variables, baseInputs, modifiedInputs, sensitivityResults, tornadoData,
          requests>>

depVars == <<asset, depYear, charges, accums>>
loanVars == <<loan, balance, schedule>>
indVars == <<cashFlows, discountRate, totals, payback, discountedPayback, indicators,
            irrRate, irrIter, irrExit>>
modelVars == <<project, investments, products, costs, financing>>
stmtVars == <<cashFlowRows, cumulativeCashFlow, incomeStatements,
             balanceSheets, retainedEarnings, cash>>
svcVars == <<debtServices, ratios>>
analysisVars == <<assumptions, scenarioResult, variables, baseInputs, modifiedInputs,
                 sensitivityResults, tornadoData>>
reqVars == <<requests>>

\* the value of a result variable before the function has returned
None == [none |-> TRUE]

\* no request has been answered
NoResponse == [status |-> 0, route |-> "none", data |-> <<>>]

----------------------------------------------------------------------------
(* JavaScript number arithmetic on exact rationals                         *)

Abs(i) == IF i < 0 THEN -i ELSE i

Sgn(i) == IF i < 0 THEN -1 ELSE IF i > 0 THEN 1 ELSE 0

RECURSIVE Gcd(_, _)
Gcd(a, b) == IF b = 0 THEN a ELSE Gcd(b, a % b)

\* the number n/d, d # 0, in lowest terms with a positive denominator
Frac(n, d) ==
  LET g == Gcd(Abs(n), Abs(d))
      s == IF d < 0 THEN -1 ELSE 1
  IN [num |-> s * (n \div g), den |-> Abs(d) \div g]

Num(i) == [num |-> i, den |-> 1]

NaN == [num |-> 0, den |-> 0]

Infinity(s) == [num |-> s, den |-> 0]

IsNaN(a) == a.den = 0 /\ a.num = 0

IsFinite(a) == a.den > 0

Zero == Num(0)

One == Num(1)

\* a + b
RAdd(a, b) ==
  IF IsNaN(a) \/ IsNaN(b) THEN NaN
  ELSE IF a.den = 0 /\ b.den = 0 THEN (IF a.num = b.num THEN a ELSE NaN)
  ELSE IF a.den = 0 THEN a
  ELSE IF b.den = 0 THEN b
  ELSE LET g == Gcd(a.den, b.den)
       IN Frac(a.num * (b.den \div g) + b.num * (a.den \div g),
               (a.den \div g) * b.den)

\* -a
RNeg(a) == [num |-> -a.num, den |-> a.den]

\* a - b
RSub(a, b) == RAdd(a, RNeg(b))

\* a * b
RMul(a, b) ==
  IF IsNaN(a) \/ IsNaN(b) THEN NaN
  ELSE IF a.den = 0 \/ b.den = 0
       THEN (IF a.num = 0 \/ b.num = 0 THEN NaN
             ELSE Infinity(Sgn(a.num) * Sgn(b.num)))
  ELSE LET g1 == Gcd(Abs(a.num), b.den)
           g2 == Gcd(Abs(b.num), a.den)
       IN [num |-> (a.num \div g1) * (b.num \div g2),
           den |-> (a.den \div g2) * (b.den \div g1)]

\* a / b
RDiv(a, b) ==
  IF IsNaN(a) \/ IsNaN(b) THEN NaN
  ELSE IF b.den = 0 THEN (IF a.den = 0 THEN NaN ELSE Zero)
  ELSE IF b.num = 0 THEN (IF a.num = 0 THEN NaN ELSE Infinity(Sgn(a.num)))
  ELSE IF a.den = 0 THEN Infinity(Sgn(a.num) * Sgn(b.num))
  ELSE RMul(a, Frac(b.den, b.num))

\* a < b (false when either is NaN)
RLt(a, b) ==
  IF IsNaN(a) \/ IsNaN(b) THEN FALSE
  ELSE IF a.den = 0 /\ b.den = 0 THEN a.num < b.num
  ELSE IF a.den = 0 \/ b.den = 0 THEN a.num * b.den < b.num * a.den
  ELSE LET g == Gcd(a.den, b.den)
       IN a.num * (b.den \div g) < b.num * (a.den \div g)

\* a <= b (false when either is NaN)
RLe(a, b) == ~IsNaN(a) /\ ~IsNaN(b) /\ (a = b \/ RLt(a, b))

\* Math.min(a, b)
RMin(a, b) ==
  IF IsNaN(a) \/ IsNaN(b) THEN NaN ELSE IF RLt(b, a) THEN b ELSE a

\* Math.max(a, b)
RMax(a, b) ==
  IF IsNaN(a) \/ IsNaN(b) THEN NaN ELSE IF RLt(a, b) THEN b ELSE a

\* Math.abs(a)
RAbs(a) == [num |-> Abs(a.num), den |-> a.den]

\* Math.pow(a, k) for an integer k >= 0
RECURSIVE RPow(_, _)
RPow(a, k) == IF k = 0 THEN One ELSE RMul(a, RPow(a, k - 1))

\* p / 100: a rate given in percent
Pct(p) == RDiv(p, Num(100))

\* the sum of a sequence of numbers, left to right
RECURSIVE RSum(_)
RSum(s) == IF s = <<>> THEN Zero ELSE RAdd(RSum(SubSeq(s, 1, Len(s) - 1)), s[Len(s)])

----------------------------------------------------------------------------
(* Depreciation kernel (depreciation.ts)                                   *)

Methods == {"straight_line", "declining_balance", "none"}

straightLineDepreciation(cost, salvageValue, usefulLife) ==
  IF usefulLife <= 0 THEN Zero
  ELSE RDiv(RSub(cost, salvageValue), Num(usefulLife))

\* the for loop of decliningBalanceDepreciation: the book value after the
\* iterations y .. year-1, with the break once it reaches the salvage value
RECURSIVE DecliningBookValue(_, _, _, _, _)
DecliningBookValue(bookValue, salvageValue, depreciationRate, y, year) ==
  IF ~(y < year) THEN bookValue
  ELSE LET next == RSub(bookValue, RMul(bookValue, depreciationRate))
       IN IF RLe(next, salvageValue) THEN salvageValue
          ELSE DecliningBookValue(next, salvageValue, depreciationRate, y + 1, year)

\* decliningBalanceDepreciation without the clamp of the charge at the
\* salvage value
DecliningBalanceUnclamped(cost, salvageValue, rate, year, usefulLife) ==
  IF year > usefulLife THEN Zero
  ELSE LET bookValue == DecliningBookValue(cost, salvageValue, Pct(rate), 1, year)
       IN IF RLe(bookValue, salvageValue) THEN Zero
          ELSE RMul(bookValue, Pct(rate))

decliningBalanceDepreciation(cost, salvageValue, rate, year, usefulLife) ==
  IF year > usefulLife THEN Zero
  ELSE LET bookValue == DecliningBookValue(cost, salvageValue, Pct(rate), 1, year)
       IN IF RLe(bookValue, salvageValue) THEN Zero
          ELSE RMin(RMul(bookValue, Pct(rate)), RSub(bookValue, salvageValue))

DepreciationOffByOne(cost, salvageValue, usefulLife, depreciationRate, method, year, purchaseYear) ==
  LET yearsSincePurchase == year - purchaseYear
  IN IF yearsSincePurchase < 0 \/ yearsSincePurchase > usefulLife THEN Zero
     ELSE IF method = "straight_line"
          THEN straightLineDepreciation(cost, salvageValue, usefulLife)
     ELSE IF method = "declining_balance"
          THEN decliningBalanceDepreciation(cost, salvageValue, depreciationRate,
                                            yearsSincePurchase + 1, usefulLife)
     ELSE Zero

calculateDepreciation(cost, salvageValue, usefulLife, depreciationRate, method, year, purchaseYear) ==
  LET yearsSincePurchase == year - purchaseYear
  IN IF yearsSincePurchase < 0 \/ yearsSincePurchase >= usefulLife THEN Zero
     ELSE IF method = "straight_line"
          THEN straightLineDepreciation(cost, salvageValue, usefulLife)
     ELSE IF method = "declining_balance"
          THEN decliningBalanceDepreciation(cost, salvageValue, depreciationRate,
                                            yearsSincePurchase + 1, usefulLife)
     ELSE Zero

\* the years purchaseYear .. currentYear the loop of
\* calculateAccumulatedDepreciation visits, in order
RECURSIVE YearsFrom(_, _)
YearsFrom(year, currentYear) ==
  IF year > currentYear THEN <<>>
  ELSE <<year>> \o YearsFrom(year + 1, currentYear)

AccumulatedLastYearOnly(cost, salvageValue, usefulLife, depreciationRate, method, currentYear, purchaseYear) ==
  LET accumulated ==
        IF purchaseYear > currentYear THEN Zero
        ELSE calculateDepreciation(cost, salvageValue, usefulLife, depreciationRate,
                                   method, currentYear, purchaseYear)
  IN RMin(accumulated, RSub(cost, salvageValue))

calculateAccumulatedDepreciation(cost, salvageValue, usefulLife, depreciationRate, method, currentYear, purchaseYear) ==
  LET years == YearsFrom(purchaseYear, currentYear)
      accumulated ==
        RSum([i \in 1..Len(years) |->
                calculateDepreciation(cost, salvageValue, usefulLife, depreciationRate,
                                      method, years[i], purchaseYear)])
  IN RMin(accumulated, RSub(cost, salvageValue))

\* Bounds of the depreciation inputs
MaxLife == 3

MaxPurchaseYear == 1

\* the query years 0 .. MaxDepYear cover every asset's whole life and one year more
MaxDepYear == MaxPurchaseYear + MaxLife + 1

Assets ==
  [cost : {Num(0), Num(100), Num(120)},
   salvageValue : {Num(0), Num(20), Num(120), Num(150)},
   usefulLife : 0..MaxLife,
   depreciationRate : {Num(0), Num(20), Num(50), Num(100)},
   method : Methods,
   purchaseYear : 0..MaxPurchaseYear]

NoAsset == [cost |-> Zero, salvageValue |-> Zero, usefulLife |-> 0, depreciationRate |-> Zero,
            method |-> "none", purchaseYear |-> 0]

DepIdle == asset = NoAsset /\ depYear = 0 /\ charges = <<>> /\ accums = <<>>

DepInit == asset \in Assets /\ depYear = 0 /\ charges = <<>> /\ accums = <<>>

\* one query year: the charge and the accumulated depreciation of depYear, as a
\* statement loop asks for them year after year
QueryDepreciation ==
  /\ depYear <= MaxDepYear
  /\ charges' = Append(charges,
       calculateDepreciation(asset.cost, asset.salvageValue, asset.usefulLife,
                             asset.depreciationRate, asset.method, depYear,
                             asset.purchaseYear))
  /\ accums' = Append(accums,
       calculateAccumulatedDepreciation(asset.cost, asset.salvageValue, asset.usefulLife,
                                        asset.depreciationRate, asset.method, depYear,
                                        asset.purchaseYear))
  /\ depYear' = depYear + 1
  /\ UNCHANGED <<asset, loanVars, indVars, modelVars, stmtVars, response, svcVars, analysisVars, reqVars>>

LoanIdle == loan = <<>> /\ balance = Zero /\ schedule = <<>>

IndIdle ==
  /\ cashFlows = <<>> /\ discountRate = 0 /\ totals = <<>>
  /\ payback = None /\ discountedPayback = None /\ indicators = None
  /\ irrRate = Zero /\ irrIter = 0 /\ irrExit = "idle"

\* no project loaded, no statement run and no request
ModelIdle ==
  /\ project = [constructionYears |-> 0, operationYears |-> 0,
                discountRate |-> Zero, taxRate |-> Zero]
  /\ investments = <<>> /\ products = <<>> /\ costs = <<>> /\ financing = <<>>

StmtIdle ==
  /\ cashFlowRows = <<>> /\ cumulativeCashFlow = Zero /\ incomeStatements = <<>>
  /\ balanceSheets = <<>> /\ retainedEarnings = Zero /\ cash = Zero

\* no direct call has been made
SvcIdle == debtServices = <<>> /\ ratios = None

\* no schedule request in flight
ReqIdle == requests = <<>>

\* no scenario calculation and no sensitivity run
AnalysisIdle ==
  /\ assumptions = <<>> /\ scenarioResult = None
  /\ variables = <<>> /\ baseInputs = None /\ modifiedInputs = None
  /\ sensitivityResults = <<>> /\ tornadoData = None

InitDep == DepInit /\ LoanIdle /\ IndIdle /\ ModelIdle /\ StmtIdle /\ response = NoResponse /\ SvcIdle /\ AnalysisIdle /\ ReqIdle

SpecDep == InitDep /\ [][QueryDepreciation]_vars

----------------------------------------------------------------------------
(* Claims about the depreciation kernel, checked under SpecDep             *)

Depreciable == RSub(asset.cost, asset.salvageValue)

\* C8: for an asset with salvageValue <= cost and usefulLife >= 1, under every
\* method, the accumulated depreciation never decreases from one query year to
\* the next and never exceeds cost - salvageValue; for straight-line it equals
\* cost - salvageValue from the last year of the useful life on.
C8_AccumulatedMonotoneBounded ==
  (RLe(asset.salvageValue, asset.cost) /\ asset.usefulLife >= 1) =>
    \A i \in 1..Len(accums) :
      /\ RLe(accums[i], Depreciable)
      /\ i > 1 => RLe(accums[i - 1], accums[i])
      /\ (asset.method = "straight_line"
          /\ i - 1 >= asset.purchaseYear + asset.usefulLife - 1)
           => accums[i] = Depreciable

C8_Witness ==
  /\ asset.method = "declining_balance"
  /\ RLt(Zero, asset.salvageValue) /\ RLt(asset.salvageValue, asset.cost)
  /\ depYear > MaxDepYear
  /\ \E i \in 2..Len(accums) :
       /\ RLt(Zero, accums[i - 1])
       /\ RLt(accums[i - 1], accums[i])
       /\ accums[i] = Depreciable

\* C9: calculateDepreciation returns 0 for every query year and every method
\* when cost <= salvageValue, and returns 0 when usefulLife = 0.
C9_ZeroWhenNothingToDepreciate ==
  (RLe(asset.cost, asset.salvageValue) \/ asset.usefulLife = 0) =>
    \A i \in 1..Len(charges) : charges[i] = Zero

\* C10: under straight-line with usefulLife >= 1 the charge is
\* (cost - salvageValue)/usefulLife in each of the years purchaseYear ..
\* purchaseYear+usefulLife-1 and 0 in every other year, and the charges of all
\* years sum to cost - salvageValue.
C10_StraightLineCharges ==
  (asset.method = "straight_line" /\ asset.usefulLife >= 1) =>
    /\ \A i \in 1..Len(charges) :
         charges[i] =
           IF i - 1 >= asset.purchaseYear /\ i - 1 < asset.purchaseYear + asset.usefulLife
           THEN RDiv(Depreciable, Num(asset.usefulLife))
           ELSE Zero
    /\ depYear > MaxDepYear => RSum(charges) = Depreciable

C10_Witness ==
  /\ asset.method = "straight_line" /\ asset.usefulLife = 3 /\ asset.purchaseYear = 1
  /\ asset.cost = Num(120) /\ asset.salvageValue = Num(20)
  /\ depYear > MaxDepYear
  /\ charges[1] = Zero /\ charges[2] = Frac(100, 3) /\ charges[4] = Frac(100, 3)
  /\ charges[5] = Zero

\* the book value at the start of query year i - 1: the cost less the charges
\* of all earlier years
BookValueBefore(i) == RSub(asset.cost, RSum(SubSeq(charges, 1, i - 1)))

\* query year i - 1 is one of the usefulLife years from the purchase on
InUsefulLife(i) ==
  i - 1 >= asset.purchaseYear /\ i - 1 < asset.purchaseYear + asset.usefulLife

----------------------------------------------------------------------------
(* Amortisation kernel (financing.ts)                                      *)

AmortizationRowGraceOffByOne(principal, annualRate, termYears, gracePeriod, bal, year) ==
  LET interestPayment == RMul(bal, Pct(annualRate))
      principalPaid == IF year >= gracePeriod
                       THEN RDiv(principal, Num(termYears - gracePeriod))
                       ELSE Zero
      endingBalance == RSub(bal, principalPaid)
  IN [year |-> year,
      beginningBalance |-> bal,
      payment |-> RAdd(principalPaid, interestPayment),
      principal |-> principalPaid,
      interest |-> interestPayment,
      endingBalance |-> RMax(Zero, endingBalance)]

AmortizationRowFlatInterest(principal, annualRate, termYears, gracePeriod, bal, year) ==
  LET interestPayment == RMul(principal, Pct(annualRate))
      principalPaid == IF year > gracePeriod
                       THEN RDiv(principal, Num(termYears - gracePeriod))
                       ELSE Zero
      endingBalance == RSub(bal, principalPaid)
  IN [year |-> year,
      beginningBalance |-> bal,
      payment |-> RAdd(principalPaid, interestPayment),
      principal |-> principalPaid,
      interest |-> interestPayment,
      endingBalance |-> RMax(Zero, endingBalance)]

\* the row one iteration of the loop of calculateAmortizationSchedule pushes,
\* given the balance carried into it
AmortizationRow(principal, annualRate, termYears, gracePeriod, bal, year) ==
  LET interestPayment == RMul(bal, Pct(annualRate))
      principalPaid == IF year > gracePeriod
                       THEN RDiv(principal, Num(termYears - gracePeriod))
                       ELSE Zero
      endingBalance == RSub(bal, principalPaid)
  IN [year |-> year,
      beginningBalance |-> bal,
      payment |-> RAdd(principalPaid, interestPayment),
      principal |-> principalPaid,
      interest |-> interestPayment,
      endingBalance |-> RMax(Zero, endingBalance)]

\* the balance the loop carries out of a row: the unclamped ending balance
CarriedBalance(row) == RSub(row.beginningBalance, row.principal)

\* the rows year .. termYears, the balance `bal` being carried into row `year`
RECURSIVE AmortizationRowsFrom(_, _, _, _, _, _)
AmortizationRowsFrom(principal, annualRate, termYears, gracePeriod, bal, year) ==
  IF year > termYears THEN <<>>
  ELSE LET row == AmortizationRow(principal, annualRate, termYears, gracePeriod, bal, year)
       IN <<row>> \o AmortizationRowsFrom(principal, annualRate, termYears, gracePeriod,
                                          CarriedBalance(row), year + 1)

calculateAmortizationSchedule(principal, annualRate, termYears, gracePeriod) ==
  AmortizationRowsFrom(principal, annualRate, termYears, gracePeriod, principal, 1)

\* Bounds of the loan inputs
MaxTerm == 4

MaxGrace == 3

Loans ==
  [principal : {Num(0), Num(100), Num(120)},
   annualRate : {Num(0), Num(8), Num(10)},
   termYears : 0..MaxTerm,
   gracePeriod : 0..MaxGrace]

LoanInit == loan \in Loans /\ balance = loan.principal /\ schedule = <<>>

\* one iteration of the loop of calculateAmortizationSchedule
AmortizationYear ==
  LET year == Len(schedule) + 1
      row == AmortizationRow(loan.principal, loan.annualRate, loan.termYears,
                             loan.gracePeriod, balance, year)
  IN /\ year <= loan.termYears
     /\ schedule' = Append(schedule, row)
     /\ balance' = CarriedBalance(row)
     /\ UNCHANGED <<loan, depVars, indVars, modelVars, stmtVars, response, svcVars, analysisVars, reqVars>>

InitLoan == LoanInit /\ DepIdle /\ IndIdle /\ ModelIdle /\ StmtIdle /\ response = NoResponse /\ SvcIdle /\ AnalysisIdle /\ ReqIdle

SpecLoan == InitLoan /\ [][AmortizationYear]_vars

----------------------------------------------------------------------------
(* Claims about the amortisation kernel, checked under SpecLoan            *)

\* the loop has run to its end: the schedule is the one returned
ScheduleReturned == Len(schedule) >= loan.termYears

\* C4: for a loan with termYears > gracePeriod >= 0 the principal amounts of
\* the returned schedule sum to the loan principal and the endingBalance of
\* its last row is 0.
C4_PrincipalRepaidInFull ==
  (loan.termYears > loan.gracePeriod /\ loan.gracePeriod >= 0 /\ ScheduleReturned) =>
    /\ RSum([y \in 1..Len(schedule) |-> schedule[y].principal]) = loan.principal
    /\ schedule[Len(schedule)].endingBalance = Zero

C4_Witness ==
  /\ loan.principal = Num(100) /\ loan.termYears = 4 /\ loan.gracePeriod = 1
  /\ ScheduleReturned
  /\ schedule[2].principal = Frac(100, 3)
  /\ schedule[3].endingBalance = Frac(100, 3)

\* C5: with termYears > gracePeriod >= 0 the schedule has exactly termYears
\* rows numbered 1..termYears, the first beginning at the loan principal, and in
\* every row y: interest = beginningBalance x rate/100, principal = 0 if
\* y <= gracePeriod and principal/(termYears - gracePeriod) otherwise,
\* payment = principal + interest, endingBalance = max(0, beginningBalance -
\* principal); with gracePeriod = termYears - 1 exactly one row pays principal,
\* and it pays the whole loan.
C5_ScheduleRows ==
  (loan.termYears > loan.gracePeriod /\ loan.gracePeriod >= 0) =>
    /\ Len(schedule) <= loan.termYears
    /\ \A y \in 1..Len(schedule) :
         LET row == schedule[y]
         IN /\ row.year = y
            /\ y = 1 => row.beginningBalance = loan.principal
            /\ row.interest = RDiv(RMul(row.beginningBalance, loan.annualRate), Num(100))
            /\ row.principal = IF y <= loan.gracePeriod THEN Zero
                               ELSE RDiv(loan.principal, Num(loan.termYears - loan.gracePeriod))
            /\ row.payment = RAdd(row.principal, row.interest)
            /\ row.endingBalance =
                 IF RLt(RSub(row.beginningBalance, row.principal), Zero) THEN Zero
                 ELSE RSub(row.beginningBalance, row.principal)
    /\ (loan.gracePeriod = loan.termYears - 1 /\ ScheduleReturned /\ RLt(Zero, loan.principal)) =>
         /\ Cardinality({y \in 1..Len(schedule) : schedule[y].principal # Zero}) = 1
         /\ schedule[loan.termYears].principal = loan.principal

C5_Witness ==
  /\ loan.principal = Num(120) /\ loan.annualRate = Num(10)
  /\ loan.termYears = 4 /\ loan.gracePeriod = 3
  /\ Len(schedule) = 4
  /\ schedule[3].interest = Num(12) /\ schedule[3].principal = Zero
  /\ schedule[4].principal = Num(120) /\ schedule[4].payment = Num(132)

----------------------------------------------------------------------------
(* Indicator calculator (indicators.ts)                                    *)

\* cashFlows[t] of the code is cf[t + 1] here: sequences start at 1
CF(cf, t) == cf[t + 1]

\* 1 + rate
OnePlus(rate) == RAdd(One, rate)

\* the reduce of calculateNPV over the indices 0 .. t
RECURSIVE NPVUpTo(_, _, _)
NPVUpTo(cf, rate, t) ==
  IF t < 0 THEN Zero
  ELSE RAdd(NPVUpTo(cf, rate, t - 1), RDiv(CF(cf, t), RPow(OnePlus(rate), t)))

calculateNPV(cf, rate) == NPVUpTo(cf, Pct(rate), Len(cf) - 1)

maxIterations == 100

tolerance == Frac(1, 10000)

guess == Frac(1, 10)

\* Math.abs(a) < 1e-10, for a number whose denominator is below 10^10
BelowDerivativeGuard(a) ==
  a.den > 0 /\ Abs(a.num) <= ((a.den - 1) \div 100000) \div 100000

\* npvDerivative after the inner loop of calculateIRR has visited 0 .. t
RECURSIVE NPVDerivativeUpTo(_, _, _)
NPVDerivativeUpTo(cf, rate, t) ==
  IF t < 0 THEN Zero
  ELSE IF t = 0 THEN NPVDerivativeUpTo(cf, rate, t - 1)
  ELSE RSub(NPVDerivativeUpTo(cf, rate, t - 1),
            RDiv(RMul(Num(t), CF(cf, t)), RPow(OnePlus(rate), t + 1)))

\* one iteration of the outer loop of calculateIRR at `rate`: the rate it
\* leaves and whether it breaks on the derivative guard ("derivative"), returns
\* newRate ("converged") or goes on ("running")
IRRIteration(cf, rate) ==
  LET npv == NPVUpTo(cf, rate, Len(cf) - 1)
      npvDerivative == NPVDerivativeUpTo(cf, rate, Len(cf) - 1)
  IN IF BelowDerivativeGuard(npvDerivative)
     THEN [rate |-> rate, exit |-> "derivative"]
     ELSE LET newRate == RSub(rate, RDiv(npv, npvDerivative))
          IN IF RLt(RAbs(RSub(newRate, rate)), tolerance)
             THEN [rate |-> newRate, exit |-> "converged"]
             ELSE [rate |-> newRate, exit |-> "running"]

\* the outer loop of calculateIRR from iteration i on: the rate the function
\* returns (times 100) and the way the loop was left
RECURSIVE IRRLoop(_, _, _)
IRRLoop(cf, rate, i) ==
  IF ~(i < maxIterations) THEN [rate |-> rate, exit |-> "cap"]
  ELSE LET it == IRRIteration(cf, rate)
       IN IF it.exit = "running" THEN IRRLoop(cf, it.rate, i + 1) ELSE it

calculateIRR(cf) == RMul(IRRLoop(cf, guess, 0).rate, Num(100))

\* pvNegative / fvPositive of calculateMIRR after the indices 0 .. t
RECURSIVE PVNegativeUpTo(_, _, _)
PVNegativeUpTo(cf, fRate, t) ==
  IF t < 0 THEN Zero
  ELSE IF RLt(CF(cf, t), Zero)
       THEN RAdd(PVNegativeUpTo(cf, fRate, t - 1),
                 RDiv(CF(cf, t), RPow(OnePlus(fRate), t)))
  ELSE PVNegativeUpTo(cf, fRate, t - 1)

RECURSIVE FVPositiveUpTo(_, _, _)
FVPositiveUpTo(cf, rRate, t) ==
  IF t < 0 THEN Zero
  ELSE IF RLt(Zero, CF(cf, t))
       THEN RAdd(FVPositiveUpTo(cf, rRate, t - 1),
                 RMul(CF(cf, t), RPow(OnePlus(rRate), (Len(cf) - 1) - t)))
  ELSE FVPositiveUpTo(cf, rRate, t - 1)

\* calculateMIRR.  The n-th root is not taken: the value
\* (Math.pow(base, 1/n) - 1) * 100 is kept as the pair [base, root |-> n], and
\* the early return 0 as the pair [1, 1], whose value is 0.
calculateMIRR(cf, financeRate, reinvestRate) ==
  LET n == Len(cf) - 1
      pvNegative == PVNegativeUpTo(cf, Pct(financeRate), n)
      fvPositive == FVPositiveUpTo(cf, Pct(reinvestRate), n)
  IN IF pvNegative = Zero THEN [base |-> One, root |-> 1]
     ELSE [base |-> RDiv(RNeg(fvPositive), pvNegative), root |-> n]

\* the loop of calculatePaybackPeriod from index t on, `cumulative` being the
\* running sum of the flows before t
RECURSIVE PaybackFrom(_, _, _)
PaybackFrom(cf, cumulative, t) ==
  IF ~(t < Len(cf)) THEN Num(-1)
  ELSE LET cum == RAdd(cumulative, CF(cf, t))
       IN IF RLe(Zero, cum)
          THEN LET prevCumulative == RSub(cum, CF(cf, t))
               IN IF CF(cf, t) # Zero
                  THEN RAdd(Num(t), RDiv(RNeg(prevCumulative), CF(cf, t)))
                  ELSE Num(t)
          ELSE PaybackFrom(cf, cum, t + 1)

calculatePaybackPeriod(cf) == PaybackFrom(cf, Zero, 0)

RECURSIVE CompoundedPaybackFrom(_, _, _, _)
CompoundedPaybackFrom(cf, rate, cumulative, t) ==
  IF ~(t < Len(cf)) THEN Num(-1)
  ELSE LET discountedCF == RMul(CF(cf, t), RPow(OnePlus(rate), t))
           cum == RAdd(cumulative, discountedCF)
       IN IF RLe(Zero, cum)
          THEN LET prevCumulative == RSub(cum, discountedCF)
               IN IF discountedCF # Zero
                  THEN RAdd(Num(t), RDiv(RNeg(prevCumulative), discountedCF))
                  ELSE Num(t)
          ELSE CompoundedPaybackFrom(cf, rate, cum, t + 1)

DiscountedPaybackCompounding(cf, rate) == CompoundedPaybackFrom(cf, Pct(rate), Zero, 0)

\* the loop of calculateDiscountedPaybackPeriod from index t on
RECURSIVE DiscountedPaybackFrom(_, _, _, _)
DiscountedPaybackFrom(cf, rate, cumulative, t) ==
  IF ~(t < Len(cf)) THEN Num(-1)
  ELSE LET discountedCF == RDiv(CF(cf, t), RPow(OnePlus(rate), t))
           cum == RAdd(cumulative, discountedCF)
       IN IF RLe(Zero, cum)
          THEN LET prevCumulative == RSub(cum, discountedCF)
               IN IF discountedCF # Zero
                  THEN RAdd(Num(t), RDiv(RNeg(prevCumulative), discountedCF))
                  ELSE Num(t)
          ELSE DiscountedPaybackFrom(cf, rate, cum, t + 1)

calculateDiscountedPaybackPeriod(cf, rate) == DiscountedPaybackFrom(cf, Pct(rate), Zero, 0)

calculateROI(totalNetIncome, totalInvestment) ==
  IF totalInvestment = Zero THEN Zero
  ELSE RMul(RDiv(totalNetIncome, totalInvestment), Num(100))

calculateBenefitCostRatio(presentValueBenefits, presentValueCosts) ==
  IF presentValueCosts = Zero THEN Zero
  ELSE RDiv(presentValueBenefits, RAbs(presentValueCosts))

BreakEvenStrictMargin(fixedCosts, unitPrice, variableCostPerUnit) ==
  LET contributionMargin == RSub(unitPrice, variableCostPerUnit)
  IN IF RLt(contributionMargin, Zero) THEN [units |-> Num(-1), revenue |-> Num(-1)]
     ELSE LET breakEvenUnits == RDiv(fixedCosts, contributionMargin)
          IN [units |-> breakEvenUnits,
              revenue |-> RMul(breakEvenUnits, unitPrice)]

calculateBreakEven(fixedCosts, unitPrice, variableCostPerUnit) ==
  LET contributionMargin == RSub(unitPrice, variableCostPerUnit)
  IN IF RLe(contributionMargin, Zero) THEN [units |-> Num(-1), revenue |-> Num(-1)]
     ELSE LET breakEvenUnits == RDiv(fixedCosts, contributionMargin)
          IN [units |-> breakEvenUnits,
              revenue |-> RMul(breakEvenUnits, unitPrice)]

\* cashFlows.slice(1).filter(cf => cf > 0), or (cf => cf < 0), from element i on
RECURSIVE SliceFilter(_, _, _)
SliceFilter(cf, positive, i) ==
  IF i > Len(cf) THEN <<>>
  ELSE (IF (positive /\ RLt(Zero, cf[i])) \/ (~positive /\ RLt(cf[i], Zero))
        THEN <<cf[i]>> ELSE <<>>)
       \o SliceFilter(cf, positive, i + 1)

\* the reduce over a filtered slice in calculateAllIndicators: element t of
\* the filtered array is discounted by (1 + discountRate/100)^(t + 1)
RECURSIVE PVOfFiltered(_, _, _)
PVOfFiltered(flows, rate, n) ==
  IF n = 0 THEN Zero
  ELSE RAdd(PVOfFiltered(flows, rate, n - 1),
            RDiv(RAbs(flows[n]), RPow(OnePlus(Pct(rate)), n)))

\* the body of calculateAllIndicators, `irr` being what its call of
\* calculateIRR returned
AllIndicators(cf, rate, totalInvestment, totalNetIncome, fixedCosts, avgUnitPrice, avgVariableCost, irr) ==
  LET benefits == SliceFilter(cf, TRUE, 2)
      costFlows == SliceFilter(cf, FALSE, 2)
      pvBenefits == PVOfFiltered(benefits, rate, Len(benefits))
      pvCosts == RAdd(RAbs(cf[1]), PVOfFiltered(costFlows, rate, Len(costFlows)))
      breakEven == calculateBreakEven(fixedCosts, avgUnitPrice, avgVariableCost)
  IN [npv |-> calculateNPV(cf, rate),
      irr |-> irr,
      mirr |-> calculateMIRR(cf, rate, rate),
      paybackPeriod |-> calculatePaybackPeriod(cf),
      discountedPaybackPeriod |-> calculateDiscountedPaybackPeriod(cf, rate),
      roi |-> calculateROI(totalNetIncome, totalInvestment),
      benefitCostRatio |-> calculateBenefitCostRatio(pvBenefits, pvCosts),
      breakEvenUnits |-> breakEven.units,
      breakEvenRevenue |-> breakEven.revenue]

\* Bounds of the indicator inputs
MaxSeriesLen == 4

MaxScale == 2

FlowValues == {Num(-10), Num(-4), Num(0), Num(5), Num(12)}

\* scenario S1 of the specification, in units of 100
ScenarioS1 == <<Num(-10), Num(3), Num(4), Num(5), Num(6)>>

SeriesInputs ==
  UNION {[1..n -> FlowValues] : n \in 1..MaxSeriesLen} \cup {ScenarioS1}

DiscountRates == {Num(0), Num(10), Num(100)}

PaybackInit ==
  /\ cashFlows \in SeriesInputs /\ discountRate \in DiscountRates /\ totals = <<>>
  /\ payback = None /\ discountedPayback = None /\ indicators = None
  /\ irrRate = Zero /\ irrIter = 0 /\ irrExit = "idle"

\* a direct call of calculatePaybackPeriod
CallPaybackPeriod ==
  /\ payback = None
  /\ payback' = calculatePaybackPeriod(cashFlows)
  /\ UNCHANGED <<cashFlows, discountRate, totals, discountedPayback, indicators,
                 irrRate, irrIter, irrExit, depVars, loanVars, modelVars, stmtVars, response, svcVars, analysisVars, reqVars>>

\* a direct call of calculateDiscountedPaybackPeriod
CallDiscountedPaybackPeriod ==
  /\ discountedPayback = None
  /\ discountedPayback' = calculateDiscountedPaybackPeriod(cashFlows, discountRate)
  /\ UNCHANGED <<cashFlows, discountRate, totals, payback, indicators,
                 irrRate, irrIter, irrExit, depVars, loanVars, modelVars, stmtVars, response, svcVars, analysisVars, reqVars>>

InitPayback == PaybackInit /\ DepIdle /\ LoanIdle /\ ModelIdle /\ StmtIdle /\ response = NoResponse /\ SvcIdle /\ AnalysisIdle /\ ReqIdle

SpecPayback == InitPayback /\ [][CallPaybackPeriod \/ CallDiscountedPaybackPeriod]_vars

\* The series on which Newton's iteration from the guess 0.1 stays in small
\* rationals: a first flow followed by zeros (the derivative is 0 at once), a
\* series whose NPV at 10% is exactly 0 (the first step does not move), and
\* <<-20k, 11k>> (the first step lands on rate = -1, where the next
\* iteration divides by zero and every later one computes on NaN).
FlatSeries ==
  {[t \in 1..n |-> IF t = 1 THEN c ELSE Zero] :
     n \in 1..MaxSeriesLen, c \in {Num(-100), Num(-10), Num(0), Num(10)}}

RootAtGuessSeries ==
  {<<Num(-(10 * a + 100 * b)), Num(11 * a), Num(121 * b)>> :
     a \in -MaxScale..MaxScale, b \in -MaxScale..MaxScale}

PoleSeries == {<<Num(-20 * k), Num(11 * k)>> : k \in 1..MaxScale}

IRRSeries == FlatSeries \cup RootAtGuessSeries \cup PoleSeries

TotalsInputs ==
  [totalInvestment : {Num(0), Num(100)},
   totalNetIncome : {Num(-20), Num(50)},
   fixedCosts : {Num(100)},
   avgUnitPrice : {Num(10)},
   avgVariableCost : {Num(6), Num(10)}]

\* calculateAllIndicators has been called and is in the loop of calculateIRR
IndicatorsInit ==
  /\ cashFlows \in IRRSeries /\ discountRate \in DiscountRates /\ totals \in TotalsInputs
  /\ payback = None /\ discountedPayback = None /\ indicators = None
  /\ irrRate = guess /\ irrIter = 0 /\ irrExit = "running"

\* one iteration of the loop of calculateIRR
IRRIterate ==
  /\ irrExit = "running"
  /\ irrIter < maxIterations
  /\ LET it == IRRIteration(cashFlows, irrRate)
     IN /\ irrRate' = it.rate
        /\ irrExit' = it.exit
        /\ irrIter' = IF it.exit = "running" THEN irrIter + 1 ELSE irrIter
  /\ UNCHANGED <<cashFlows, discountRate, totals, payback, discountedPayback, indicators,
                 depVars, loanVars, modelVars, stmtVars, response, svcVars, analysisVars, reqVars>>

\* the loop of calculateIRR ends at the iteration cap
IRRIterationCap ==
  /\ irrExit = "running"
  /\ ~(irrIter < maxIterations)
  /\ irrExit' = "cap"
  /\ UNCHANGED <<cashFlows, discountRate, totals, payback, discountedPayback, indicators,
                 irrRate, irrIter, depVars, loanVars, modelVars, stmtVars, response, svcVars, analysisVars, reqVars>>

\* calculateIRR has returned irrRate * 100: calculateAllIndicators computes the
\* other indicators and returns the bundle
ReturnAllIndicators ==
  /\ irrExit \in {"derivative", "converged", "cap"}
  /\ indicators = None
  /\ indicators' = AllIndicators(cashFlows, discountRate, totals.totalInvestment,
                     totals.totalNetIncome, totals.fixedCosts, totals.avgUnitPrice,
                     totals.avgVariableCost, RMul(irrRate, Num(100)))
  /\ UNCHANGED <<cashFlows, discountRate, totals, payback, discountedPayback,
                 irrRate, irrIter, irrExit, depVars, loanVars, modelVars, stmtVars, response, svcVars, analysisVars, reqVars>>

InitIndicators == IndicatorsInit /\ DepIdle /\ LoanIdle /\ ModelIdle /\ StmtIdle /\ response = NoResponse /\ SvcIdle /\ AnalysisIdle /\ ReqIdle

SpecIndicators ==
  InitIndicators /\ [][IRRIterate \/ IRRIterationCap \/ ReturnAllIndicators]_vars

----------------------------------------------------------------------------
(* Claims about the indicator calculator                                   *)

\* the running sum of the flows 0 .. t
RunningSum(cf, t) == RSum(SubSeq(cf, 1, t + 1))

\* the first index at which the running sum is >= 0, or -1 when there is none
FirstNonNegative(cf) ==
  LET hits == {t \in 0..(Len(cf) - 1) : RLe(Zero, RunningSum(cf, t))}
  IN IF hits = {} THEN -1 ELSE CHOOSE t \in hits : \A u \in hits : t <= u

\* the crossing point the claim describes
InterpolatedCrossing(cf) ==
  LET t == FirstNonNegative(cf)
  IN IF t = -1 THEN Num(-1)
     ELSE IF t = 0 THEN Zero
     ELSE RAdd(Num(t - 1), RDiv(RNeg(RunningSum(cf, t - 1)), CF(cf, t)))

\* C2: calculatePaybackPeriod returns the interpolated crossing point
\* (t-1) + (-cumulative_{t-1})/CF_t of the first index t >= 1 at which the
\* running sum becomes >= 0 (2.6 for scenario S1), 0 when CF_0 >= 0, and -1
\* exactly when the running sum never becomes non-negative.
C2_PaybackIsInterpolatedCrossing ==
  payback # None =>
    /\ payback = InterpolatedCrossing(cashFlows)
    /\ cashFlows = ScenarioS1 => payback = Frac(26, 10)

\* C3: when calculateIRR leaves its loop through the derivative guard or the
\* iteration cap, the indicator bundle reports IRR and MIRR as null (not
\* converged) instead of a number, the other indicators being returned.
Null == [null |-> TRUE]

C3_NotConvergedIsNull ==
  (indicators # None /\ irrExit \in {"derivative", "cap"}) =>
    /\ indicators.irr = Null
    /\ indicators.mirr = Null
    /\ indicators.npv = calculateNPV(cashFlows, discountRate)

\* C7: for a discount rate >= 0, whenever the simple and the discounted
\* payback are both finite (not -1), the discounted payback is >= the simple
\* payback.
C7_DiscountedPaybackNotShorter ==
  (payback # None /\ discountedPayback # None /\ RLe(Zero, discountRate)
     /\ payback # Num(-1) /\ discountedPayback # Num(-1)) =>
    RLe(payback, discountedPayback)

C7_Witness ==
  /\ payback # None /\ discountedPayback # None
  /\ RLt(Zero, discountRate)
  /\ payback # Num(-1) /\ discountedPayback # Num(-1)
  /\ RLt(payback, discountedPayback)
  /\ \E t \in 2..Len(cashFlows) : RLt(cashFlows[t], Zero)

\* the present value of the positive (or of the negative) flows of the years
\* 1 .. t, each flow discounted by its own year
RECURSIVE OwnYearPV(_, _, _, _)
OwnYearPV(cf, rate, positive, t) ==
  IF t < 1 THEN Zero
  ELSE RAdd(OwnYearPV(cf, rate, positive, t - 1),
            IF (positive /\ RLt(Zero, CF(cf, t))) \/ (~positive /\ RLt(CF(cf, t), Zero))
            THEN RDiv(RAbs(CF(cf, t)), RPow(OnePlus(Pct(rate)), t))
            ELSE Zero)

\* C19: the benefit-cost ratio of calculateAllIndicators discounts every flow
\* by its own year: CF_t / (1 + r)^t for the positive flows of the years
\* t >= 1, over |CF_0| plus |CF_t| / (1 + r)^t for the negative ones
C19_BCRDiscountsByOwnYear ==
  indicators # None =>
    indicators.benefitCostRatio =
      calculateBenefitCostRatio(
        OwnYearPV(cashFlows, discountRate, TRUE, Len(cashFlows) - 1),
        RAdd(RAbs(cashFlows[1]),
             OwnYearPV(cashFlows, discountRate, FALSE, Len(cashFlows) - 1)))

----------------------------------------------------------------------------
(* Debt service (financing.ts) and the statement composer                  *)

\* what a financing item outside its repayment window, or one that is not a
\* loan, adds to the totals of calculateDebtService
NoPayment == [principal |-> Zero, interest |-> Zero]

\* the schedule row calculateDebtService reads for one item in `year`
ScheduleEntry(sched, yearIndex) ==
  IF yearIndex >= 0 /\ yearIndex < Len(sched)
  THEN [principal |-> sched[yearIndex + 1].principal,
        interest |-> sched[yearIndex + 1].interest]
  ELSE NoPayment

DebtServiceRowAnyType(item, year) ==
  ScheduleEntry(calculateAmortizationSchedule(item.amount, item.interestRate,
                                              item.termYears, item.gracePeriod),
                year - item.repaymentStartYear)

DebtServiceRow(item, year) ==
  IF item.type # "loan" THEN NoPayment
  ELSE ScheduleEntry(calculateAmortizationSchedule(item.amount, item.interestRate,
                                                   item.termYears, item.gracePeriod),
                     year - item.repaymentStartYear)

\* the object calculateDebtService returns
DebtServiceTotals(totalPrincipal, totalInterest) ==
  [principal |-> totalPrincipal,
   interest |-> totalInterest,
   total |-> RAdd(totalPrincipal, totalInterest)]

calculateDebtService(financingItems, year) ==
  DebtServiceTotals(
    RSum([i \in 1..Len(financingItems) |-> DebtServiceRow(financingItems[i], year).principal]),
    RSum([i \in 1..Len(financingItems) |-> DebtServiceRow(financingItems[i], year).interest]))

TotalYears(p) == p.constructionYears + p.operationYears

\* productionSchedule.find(s => s.year === operatingYear): the index of the
\* first row of that year, 0 when there is none
FindScheduleRow(productionSchedule, operatingYear) ==
  LET hits == {k \in 1..Len(productionSchedule) :
                 productionSchedule[k].year = operatingYear}
  IN IF hits = {} THEN 0 ELSE CHOOSE k \in hits : \A j \in hits : k <= j

\* the revenue of a product with the price escalated from the first
\* operating year on
ProductRevenueEscalatedAtOnce(product, operatingYear) ==
  LET k == FindScheduleRow(product.productionSchedule, operatingYear)
  IN IF k = 0 THEN Zero
     ELSE RMul(product.productionSchedule[k].quantity,
               RMul(product.unitPrice,
                    RPow(OnePlus(Pct(product.priceEscalation)), operatingYear)))

\* what one product adds to the revenue of an operating year
ProductRevenue(product, operatingYear) ==
  LET k == FindScheduleRow(product.productionSchedule, operatingYear)
  IN IF k = 0 THEN Zero
     ELSE LET escalatedPrice ==
                RMul(product.unitPrice,
                     RPow(OnePlus(Pct(product.priceEscalation)), operatingYear - 1))
          IN RMul(product.productionSchedule[k].quantity, escalatedPrice)

\* the revenue of `year`
Revenue(p, prods, year) ==
  IF year > p.constructionYears
  THEN RSum([i \in 1..Len(prods) |-> ProductRevenue(prods[i], year - p.constructionYears)])
  ELSE Zero

\* what one operating cost adds in an operating year
EscalatedAmount(cost, operatingYear) ==
  IF operatingYear >= cost.startYear
  THEN RMul(cost.amount,
            RPow(OnePlus(Pct(cost.escalationRate)), operatingYear - cost.startYear))
  ELSE Zero

\* the escalated costs of `year` whose costType is in `types`
OperatingCosts(p, cs, types, year) ==
  IF year > p.constructionYears
  THEN RSum([i \in 1..Len(cs) |->
               IF cs[i].costType \in types
               THEN EscalatedAmount(cs[i], year - p.constructionYears)
               ELSE Zero])
  ELSE Zero

CostTypes == {"fixed", "variable"}

\* the depreciation of `year` over the investments of every category
DepreciationOfEveryCategory(invs, year) ==
  RSum([i \in 1..Len(invs) |->
          calculateDepreciation(invs[i].amount, invs[i].salvageValue,
                                invs[i].usefulLife, invs[i].depreciationRate,
                                invs[i].depreciationMethod, year, invs[i].year)])

\* the depreciation of `year` over the investments that are neither land nor
\* working capital
Depreciation(invs, year) ==
  RSum([i \in 1..Len(invs) |->
          IF invs[i].category # "land" /\ invs[i].category # "working_capital"
          THEN calculateDepreciation(invs[i].amount, invs[i].salvageValue,
                                     invs[i].usefulLife, invs[i].depreciationRate,
                                     invs[i].depreciationMethod, year, invs[i].year)
          ELSE Zero])

\* taxableIncome > 0 ? taxableIncome * (taxRate / 100) : 0
Taxes(taxableIncome, taxRate) ==
  IF RLt(Zero, taxableIncome) THEN RMul(taxableIncome, Pct(taxRate)) ELSE Zero

\* the row with the debt service left out of the net cash flow
CashFlowRowWithoutDebtService(year, revenue, operatingCosts, yearInvestments, financingInflows, debtService, depreciation, taxRate, discountFactor, cumulative) ==
  LET taxableIncome ==
        RSub(RSub(RSub(revenue, operatingCosts), depreciation), debtService.interest)
      taxes == Taxes(taxableIncome, taxRate)
      operatingOutflow == RAdd(operatingCosts, taxes)
      netCashFlow ==
        RAdd(RSub(RSub(revenue, operatingOutflow), yearInvestments), financingInflows)
  IN [year |-> year,
      operatingInflow |-> revenue,
      operatingOutflow |-> operatingOutflow,
      investingOutflow |-> yearInvestments,
      financingInflow |-> financingInflows,
      financingOutflow |-> RAdd(debtService.principal, debtService.interest),
      netCashFlow |-> netCashFlow,
      cumulativeCashFlow |-> RAdd(cumulative, netCashFlow),
      discountedCashFlow |-> RDiv(netCashFlow, discountFactor)]

\* the second half of an iteration of generateCashFlows: taxes, the flows and
\* the row, from the amounts the first half has computed
CashFlowRowOf(year, revenue, operatingCosts, yearInvestments, financingInflows, debtService, depreciation, taxRate, discountFactor, cumulative) ==
  LET taxableIncome ==
        RSub(RSub(RSub(revenue, operatingCosts), depreciation), debtService.interest)
      taxes == Taxes(taxableIncome, taxRate)
      operatingInflow == revenue
      operatingOutflow == RAdd(operatingCosts, taxes)
      investingOutflow == yearInvestments
      financingInflow == financingInflows
      financingOutflow == RAdd(debtService.principal, debtService.interest)
      netCashFlow ==
        RSub(RAdd(RSub(RSub(operatingInflow, operatingOutflow), investingOutflow),
                  financingInflow),
             financingOutflow)
  IN [year |-> year,
      operatingInflow |-> operatingInflow,
      operatingOutflow |-> operatingOutflow,
      investingOutflow |-> investingOutflow,
      financingInflow |-> financingInflow,
      financingOutflow |-> financingOutflow,
      netCashFlow |-> netCashFlow,
      cumulativeCashFlow |-> RAdd(cumulative, netCashFlow),
      discountedCashFlow |-> RDiv(netCashFlow, discountFactor)]

\* the row of generateCashFlows, had year 0 been discounted by one period
CashFlowRowDiscountedFromYearZero(p, invs, prods, cs, fin, year, cumulative) ==
  CashFlowRowOf(
    year,
    Revenue(p, prods, year),
    OperatingCosts(p, cs, CostTypes, year),
    RSum([i \in 1..Len(invs) |-> IF invs[i].year = year THEN invs[i].amount ELSE Zero]),
    RSum([i \in 1..Len(fin) |->
            IF fin[i].disbursementYear = year THEN fin[i].amount ELSE Zero]),
    calculateDebtService(fin, year),
    Depreciation(invs, year),
    p.taxRate,
    RPow(OnePlus(Pct(p.discountRate)), year + 1),
    cumulative)

\* the row one iteration of the loop of generateCashFlows pushes, `cumulative`
\* being cumulativeCashFlow before the iteration
CashFlowRow(p, invs, prods, cs, fin, year, cumulative) ==
  CashFlowRowOf(
    year,
    Revenue(p, prods, year),
    OperatingCosts(p, cs, CostTypes, year),
    RSum([i \in 1..Len(invs) |-> IF invs[i].year = year THEN invs[i].amount ELSE Zero]),
    RSum([i \in 1..Len(fin) |->
            IF fin[i].disbursementYear = year THEN fin[i].amount ELSE Zero]),
    calculateDebtService(fin, year),
    Depreciation(invs, year),
    p.taxRate,
    RPow(OnePlus(Pct(p.discountRate)), year),
    cumulative)

\* the rows generateCashFlows pushes from `year` on
RECURSIVE CashFlowRowsFrom(_, _, _, _, _, _, _)
CashFlowRowsFrom(p, invs, prods, cs, fin, year, cumulative) ==
  IF year > TotalYears(p) THEN <<>>
  ELSE LET Push(row) == <<row>> \o CashFlowRowsFrom(p, invs, prods, cs, fin, year + 1,
                                                   row.cumulativeCashFlow)
       IN Push(CashFlowRow(p, invs, prods, cs, fin, year, cumulative))

generateCashFlows(p, invs, prods, cs, fin) ==
  CashFlowRowsFrom(p, invs, prods, cs, fin, 0, Zero)

\* the profit lines with the taxes charged on the operating income, before
\* interest
IncomeStatementRowTaxBeforeInterest(year, revenue, cogs, operatingExpenses, depreciation, interestExpense, taxRate) ==
  LET grossProfit == RSub(revenue, cogs)
      operatingIncome == RSub(RSub(grossProfit, operatingExpenses), depreciation)
      taxableIncome == RSub(operatingIncome, interestExpense)
      taxes == Taxes(operatingIncome, taxRate)
  IN [year |-> year, revenue |-> revenue, costOfGoodsSold |-> cogs,
      grossProfit |-> grossProfit, operatingExpenses |-> operatingExpenses,
      depreciation |-> depreciation, operatingIncome |-> operatingIncome,
      interestExpense |-> interestExpense, taxableIncome |-> taxableIncome,
      taxes |-> taxes, netIncome |-> RSub(taxableIncome, taxes)]

\* the second half of an operating-year iteration of generateIncomeStatements:
\* the profit lines and the row, from the amounts the first half has computed
IncomeStatementRowOf(year, revenue, cogs, operatingExpenses, depreciation, interestExpense, taxRate) ==
  LET grossProfit == RSub(revenue, cogs)
      operatingIncome == RSub(RSub(grossProfit, operatingExpenses), depreciation)
      taxableIncome == RSub(operatingIncome, interestExpense)
      taxes == Taxes(taxableIncome, taxRate)
  IN [year |-> year, revenue |-> revenue, costOfGoodsSold |-> cogs,
      grossProfit |-> grossProfit, operatingExpenses |-> operatingExpenses,
      depreciation |-> depreciation, operatingIncome |-> operatingIncome,
      interestExpense |-> interestExpense, taxableIncome |-> taxableIncome,
      taxes |-> taxes, netIncome |-> RSub(taxableIncome, taxes)]

\* the row one iteration of the loop of generateIncomeStatements pushes
IncomeStatementRow(p, invs, prods, cs, fin, year) ==
  IF year <= p.constructionYears
  THEN [year |-> year, revenue |-> Zero, costOfGoodsSold |-> Zero, grossProfit |-> Zero,
        operatingExpenses |-> Zero, depreciation |-> Zero, operatingIncome |-> Zero,
        interestExpense |-> Zero, taxableIncome |-> Zero, taxes |-> Zero,
        netIncome |-> Zero]
  ELSE IncomeStatementRowOf(
         year,
         Revenue(p, prods, year),
         OperatingCosts(p, cs, {"variable"}, year),
         OperatingCosts(p, cs, CostTypes \ {"variable"}, year),
         Depreciation(invs, year),
         calculateDebtService(fin, year).interest,
         p.taxRate)

\* the remaining principal one financing item adds to longTermDebt in `year`
LongTermDebtOf(f, year) ==
  LET yearsSinceStart == year - f.repaymentStartYear
  IN IF f.type # "loan" THEN Zero
     ELSE IF yearsSinceStart < 0 THEN f.amount
     ELSE IF yearsSinceStart < f.termYears
          THEN LET principalPayment == RDiv(f.amount, Num(f.termYears - f.gracePeriod))
                   paidYears == IF yearsSinceStart - f.gracePeriod > 0
                                THEN yearsSinceStart - f.gracePeriod ELSE 0
                   principalPaid == RMul(Num(paidYears), principalPayment)
               IN RMax(Zero, RSub(f.amount, principalPaid))
     ELSE Zero

\* the share of working capital shown as inventory
inventoryShare == Frac(6, 10)

\* retainedEarnings after the update of an iteration of generateBalanceSheets:
\* the net income of the income statement of `year`, if there is one, is added
RetainedEarningsAfter(statements, year, retained) ==
  LET yearIncome == {k \in 1..Len(statements) : statements[k].year = year}
  IN IF yearIncome = {} THEN retained
     ELSE RAdd(retained,
               statements[CHOOSE k \in yearIncome : \A j \in yearIncome : k <= j].netIncome)

\* if (cash < 0) cash = 0
ClampCash(c) == IF RLt(c, Zero) THEN Zero ELSE c

\* the second half of an iteration of generateBalanceSheets: the totals, the
\* cash update and the row, from the amounts the first half has computed
BalanceSheetRowOf(year, fixedAssets, accumulatedDepreciation, workingCapital, longTermDebt, shareCapital, retainedAfter, cashBefore) ==
  LET netFixedAssets == RSub(fixedAssets, accumulatedDepreciation)
      receivables == Zero
      inventory == RMul(workingCapital, inventoryShare)
      currentAssets == RAdd(RAdd(cashBefore, receivables), inventory)
      totalAssets == RAdd(currentAssets, netFixedAssets)
      payables == Zero
      currentLiabilities == payables
      totalLiabilities == RAdd(currentLiabilities, longTermDebt)
      totalEquity == RAdd(shareCapital, retainedAfter)
      cashAfter ==
        ClampCash(RSub(RSub(RSub(totalAssets, netFixedAssets), receivables), inventory))
  IN [year |-> year,
      cash |-> cashAfter,
      receivables |-> receivables,
      inventory |-> inventory,
      currentAssets |-> RAdd(RAdd(cashAfter, receivables), inventory),
      fixedAssets |-> fixedAssets,
      accumulatedDepreciation |-> accumulatedDepreciation,
      netFixedAssets |-> netFixedAssets,
      totalAssets |-> RAdd(RAdd(RAdd(cashAfter, receivables), inventory), netFixedAssets),
      payables |-> payables,
      currentLiabilities |-> currentLiabilities,
      longTermDebt |-> longTermDebt,
      totalLiabilities |-> totalLiabilities,
      shareCapital |-> shareCapital,
      retainedEarnings |-> retainedAfter,
      totalEquity |-> totalEquity]

\* the row of generateBalanceSheets, had fixedAssets counted the purchases of
\* the year alone
BalanceSheetRowPurchasesOfYear(invs, fin, statements, year, retained, cashBefore) ==
  BalanceSheetRowOf(
    year,
    RSum([i \in 1..Len(invs) |->
            IF invs[i].year = year /\ invs[i].category # "working_capital"
            THEN invs[i].amount ELSE Zero]),
    RSum([i \in 1..Len(invs) |->
            IF /\ invs[i].year <= year
               /\ invs[i].category # "land"
               /\ invs[i].category # "working_capital"
            THEN calculateAccumulatedDepreciation(
                   invs[i].amount, invs[i].salvageValue, invs[i].usefulLife,
                   invs[i].depreciationRate, invs[i].depreciationMethod,
                   year, invs[i].year)
            ELSE Zero]),
    RSum([i \in 1..Len(invs) |->
            IF invs[i].year <= year /\ invs[i].category = "working_capital"
            THEN invs[i].amount ELSE Zero]),
    RSum([i \in 1..Len(fin) |-> LongTermDebtOf(fin[i], year)]),
    RSum([i \in 1..Len(fin) |->
            IF fin[i].type = "equity" /\ fin[i].disbursementYear <= year
            THEN fin[i].amount ELSE Zero]),
    RetainedEarningsAfter(statements, year, retained),
    cashBefore)

\* the row one iteration of the loop of generateBalanceSheets pushes, `retained`
\* and `cashBefore` being retainedEarnings and cash before the iteration
BalanceSheetRow(invs, fin, statements, year, retained, cashBefore) ==
  BalanceSheetRowOf(
    year,
    RSum([i \in 1..Len(invs) |->
            IF invs[i].year <= year /\ invs[i].category # "working_capital"
            THEN invs[i].amount ELSE Zero]),
    RSum([i \in 1..Len(invs) |->
            IF /\ invs[i].year <= year
               /\ invs[i].category # "land"
               /\ invs[i].category # "working_capital"
            THEN calculateAccumulatedDepreciation(
                   invs[i].amount, invs[i].salvageValue, invs[i].usefulLife,
                   invs[i].depreciationRate, invs[i].depreciationMethod,
                   year, invs[i].year)
            ELSE Zero]),
    RSum([i \in 1..Len(invs) |->
            IF invs[i].year <= year /\ invs[i].category = "working_capital"
            THEN invs[i].amount ELSE Zero]),
    RSum([i \in 1..Len(fin) |-> LongTermDebtOf(fin[i], year)]),
    RSum([i \in 1..Len(fin) |->
            IF fin[i].type = "equity" /\ fin[i].disbursementYear <= year
            THEN fin[i].amount ELSE Zero]),
    RetainedEarningsAfter(statements, year, retained),
    cashBefore)

\* Bounds of the project horizon
MaxConstructionYears == 1

MaxOperationYears == 2

Projects ==
  [constructionYears : 0..MaxConstructionYears,
   operationYears : 1..MaxOperationYears,
   discountRate : {Num(0), Num(10)},
   taxRate : {Num(25)}]

Investment(category, amount, year, salvageValue, method) ==
  [category |-> category, amount |-> Num(amount), year |-> year, usefulLife |-> 2,
   salvageValue |-> Num(salvageValue), depreciationMethod |-> method,
   depreciationRate |-> Num(50)]

InvestmentLists ==
  {<<>>,
   <<Investment("machinery", 100, 0, 20, "straight_line")>>,
   <<Investment("machinery", 100, 1, 20, "declining_balance")>>,
   <<Investment("machinery", 100, 1, 20, "straight_line")>>,
   <<Investment("land", 100, 0, 0, "straight_line")>>,
   <<Investment("working_capital", 50, 1, 0, "declining_balance")>>,
   <<Investment("machinery", 100, 0, 20, "straight_line"),
     Investment("working_capital", 50, 1, 0, "straight_line")>>}

ScheduleRow(year, quantity) == [year |-> year, quantity |-> Num(quantity)]

ProductLists ==
  {<<>>,
   <<[unitPrice |-> Num(10), priceEscalation |-> Num(10),
      productionSchedule |-> <<ScheduleRow(1, 10), ScheduleRow(2, 12)>>]>>,
   <<[unitPrice |-> Num(10), priceEscalation |-> Num(0),
      productionSchedule |-> <<ScheduleRow(2, 5)>>]>>}

CostLists ==
  {<<>>,
   <<[costType |-> "fixed", amount |-> Num(30), unitCost |-> Num(0),
      escalationRate |-> Num(10), startYear |-> 1]>>,
   <<[costType |-> "variable", amount |-> Num(20), unitCost |-> Num(4),
      escalationRate |-> Num(10), startYear |-> 2]>>}

Financing(type, amount, termYears, gracePeriod, disbursementYear, repaymentStartYear) ==
  [type |-> type, amount |-> Num(amount), interestRate |-> Num(10),
   termYears |-> termYears, gracePeriod |-> gracePeriod,
   disbursementYear |-> disbursementYear, repaymentStartYear |-> repaymentStartYear]

FinancingLists ==
  {<<>>,
   <<Financing("equity", 100, 0, 0, 0, 1)>>,
   <<Financing("loan", 100, 2, 0, 0, 1)>>,
   <<Financing("loan", 100, 2, 1, 1, 2)>>,
   <<Financing("grant", 50, 0, 0, 0, 1)>>,
   <<Financing("equity", 50, 0, 0, 0, 1), Financing("loan", 100, 2, 0, 0, 1)>>,
   <<Financing("loan", 100, 1, 1, 0, 1)>>}

\* a statement run is about to start on a project
StatementsInit ==
  /\ project \in Projects
  /\ investments \in InvestmentLists /\ products \in ProductLists
  /\ costs \in CostLists /\ financing \in FinancingLists
  /\ cashFlowRows = <<>> /\ cumulativeCashFlow = Zero /\ incomeStatements = <<>>
  /\ balanceSheets = <<>> /\ retainedEarnings = Zero /\ cash = Zero
  /\ response = NoResponse

\* one iteration of the loop of generateCashFlows
CashFlowYear ==
  LET year == Len(cashFlowRows)
  IN /\ year <= TotalYears(project)
     /\ \E row \in {CashFlowRow(project, investments, products, costs, financing, year,
                                cumulativeCashFlow)} :
          /\ cashFlowRows' = Append(cashFlowRows, row)
          /\ cumulativeCashFlow' = row.cumulativeCashFlow
     /\ UNCHANGED <<incomeStatements, balanceSheets, retainedEarnings, cash,
                    modelVars, response, depVars, loanVars, indVars, svcVars, analysisVars, reqVars>>

\* one iteration of the loop of generateIncomeStatements, called once
\* generateCashFlows has returned
IncomeStatementYear ==
  LET year == Len(incomeStatements) + 1
  IN /\ Len(cashFlowRows) > TotalYears(project)
     /\ year <= TotalYears(project)
     /\ incomeStatements' =
          Append(incomeStatements,
                 IncomeStatementRow(project, investments, products, costs, financing, year))
     /\ UNCHANGED <<cashFlowRows, cumulativeCashFlow, balanceSheets, retainedEarnings,
                    cash, modelVars, response, depVars, loanVars, indVars, svcVars, analysisVars, reqVars>>

\* one iteration of the loop of generateBalanceSheets, called with the income
\* statements once generateIncomeStatements has returned
BalanceSheetYear ==
  LET year == Len(balanceSheets)
  IN /\ Len(cashFlowRows) > TotalYears(project)
     /\ Len(incomeStatements) >= TotalYears(project)
     /\ year <= TotalYears(project)
     /\ \E row \in {BalanceSheetRow(investments, financing, incomeStatements, year,
                                    retainedEarnings, cash)} :
          /\ balanceSheets' = Append(balanceSheets, row)
          /\ retainedEarnings' = row.retainedEarnings
          /\ cash' = row.cash
     /\ UNCHANGED <<cashFlowRows, cumulativeCashFlow, incomeStatements,
                    modelVars, response, depVars, loanVars, indVars, svcVars, analysisVars, reqVars>>

InitStatements == StatementsInit /\ DepIdle /\ LoanIdle /\ IndIdle /\ SvcIdle /\ AnalysisIdle /\ ReqIdle

SpecStatements ==
  InitStatements /\ [][CashFlowYear \/ IncomeStatementYear \/ BalanceSheetYear]_vars

----------------------------------------------------------------------------
(* Claims about the statement composer, checked under SpecStatements       *)

\* the structural violations of a project model: a loan whose termYears do not
\* exceed its gracePeriod, a negative amount, an unknown investment category, a
\* production-schedule year outside 1..operationYears
InvestmentCategories ==
  {"land", "buildings", "machinery", "equipment", "vehicles", "furniture",
   "preproduction", "working_capital", "other"}

StructuralViolation ==
  \/ \E i \in 1..Len(financing) :
       \/ financing[i].type = "loan" /\ financing[i].termYears <= financing[i].gracePeriod
       \/ RLt(financing[i].amount, Zero)
  \/ \E i \in 1..Len(investments) :
       \/ RLt(investments[i].amount, Zero)
       \/ investments[i].category \notin InvestmentCategories
  \/ \E i \in 1..Len(costs) : RLt(costs[i].amount, Zero)
  \/ \E i \in 1..Len(products) :
       \E k \in 1..Len(products[i].productionSchedule) :
         products[i].productionSchedule[k].year \notin 1..project.operationYears

\* C1: for every valid project and every year 0..constructionYears+operationYears
\* the balance sheet row of generateBalanceSheets has
\* totalAssets = totalLiabilities + totalEquity, cash being the plug clamped at 0.
C1_BalanceSheetBalances ==
  ~StructuralViolation =>
    \A i \in 1..Len(balanceSheets) :
      balanceSheets[i].totalAssets =
        RAdd(balanceSheets[i].totalLiabilities, balanceSheets[i].totalEquity)

----------------------------------------------------------------------------
(* The HTTP routes that store a project's records and serve its cash flows *)

\* an optional body field: absent, or given with a value
Absent == <<>>

Given(v) == <<v>>

\* req.body.field ?? default
OrDefault(field, default) == IF field = Absent THEN default ELSE field[1]

\* optional().isInt({ min }) and optional().isFloat({ min, max })
OptionalIntMin(field, min) == field = Absent \/ field[1] >= min

OptionalFloatIn(field, min, max) ==
  field = Absent \/ (RLe(min, field[1]) /\ RLe(field[1], max))

\* the validation chain of POST /financing; the name is always given
FinancingBodyValid(body) ==
  /\ body.type \in {"equity", "loan", "grant"}
  /\ RLe(Zero, body.amount)
  /\ OptionalFloatIn(body.interestRate, Zero, Num(100))
  /\ OptionalIntMin(body.termYears, 0)
  /\ OptionalIntMin(body.gracePeriod, 0)
  /\ OptionalIntMin(body.disbursementYear, 0)
  /\ OptionalIntMin(body.repaymentStartYear, 1)

\* the record POST /financing creates
FinancingCreated(body) ==
  [type |-> body.type,
   amount |-> body.amount,
   interestRate |-> OrDefault(body.interestRate, Zero),
   termYears |-> OrDefault(body.termYears, 0),
   gracePeriod |-> OrDefault(body.gracePeriod, 0),
   disbursementYear |-> OrDefault(body.disbursementYear, 0),
   repaymentStartYear |-> OrDefault(body.repaymentStartYear, 1)]

\* the validation chain of POST /investments; the description is always given
InvestmentBodyValid(body) ==
  /\ body.category \in InvestmentCategories
  /\ RLe(Zero, body.amount)
  /\ body.year >= 0
  /\ OptionalIntMin(body.usefulLife, 1)
  /\ body.salvageValue = Absent \/ RLe(Zero, body.salvageValue[1])
  /\ body.depreciationMethod = Absent \/ body.depreciationMethod[1] \in Methods
  /\ OptionalFloatIn(body.depreciationRate, Zero, Num(100))

\* the record POST /investments creates
InvestmentCreated(body) ==
  [category |-> body.category,
   amount |-> body.amount,
   year |-> body.year,
   usefulLife |-> OrDefault(body.usefulLife, 10),
   salvageValue |-> OrDefault(body.salvageValue, Zero),
   depreciationMethod |-> OrDefault(body.depreciationMethod, "straight_line"),
   depreciationRate |-> OrDefault(body.depreciationRate, Num(10))]

\* the validation chain of PUT /products/:id/schedule; capacityUtilization,
\* which no calculation reads, is always given and within 0..100
ScheduleBodyValid(rows) ==
  \A k \in 1..Len(rows) : rows[k].year >= 1 /\ RLe(Zero, rows[k].quantity)

\* Bounds of the stored records
MaxStored == 1

FinancingBodies ==
  [type : {"equity", "loan", "bond"},
   amount : {Num(-50), Num(100)},
   interestRate : {Given(Num(10))},
   termYears : {Absent, Given(-1), Given(2)},
   gracePeriod : {Absent, Given(2), Given(3)},
   disbursementYear : {Absent},
   repaymentStartYear : {Absent}]

InvestmentBodies ==
  [category : {"machinery", "crypto"},
   amount : {Num(-10), Num(100)},
   year : {0},
   usefulLife : {Absent, Given(0), Given(2)},
   salvageValue : {Absent},
   depreciationMethod : {Absent},
   depreciationRate : {Absent}]

ScheduleBodies ==
  {<<>>, <<ScheduleRow(1, 10)>>, <<ScheduleRow(0, 10)>>, <<ScheduleRow(3, 10)>>,
   <<ScheduleRow(1, -5)>>}

\* the product ids a request may name: the stored products and one more
ProductIds == 1..(Len(products) + 1)

BadRequest(route) == [status |-> 400, route |-> route, data |-> <<>>]

\* a project with two operating years and one product has been created
ApiInit ==
  /\ project = [constructionYears |-> 1, operationYears |-> 2,
                discountRate |-> Num(10), taxRate |-> Num(25)]
  /\ investments = <<>> /\ costs = <<>> /\ financing = <<>>
  /\ products = <<[unitPrice |-> Num(10), priceEscalation |-> Num(0),
                   productionSchedule |-> <<>>]>>
  /\ response = NoResponse

\* POST /financing
PostFinancing ==
  \E body \in FinancingBodies :
    /\ IF ~FinancingBodyValid(body)
       THEN response' = BadRequest("financing") /\ UNCHANGED financing
       ELSE /\ Len(financing) < MaxStored
            /\ financing' = Append(financing, FinancingCreated(body))
            /\ response' = [status |-> 201, route |-> "financing",
                            data |-> <<FinancingCreated(body)>>]
    /\ UNCHANGED <<project, investments, products, costs, stmtVars,
                   depVars, loanVars, indVars, svcVars, analysisVars, reqVars>>

\* POST /investments
PostInvestment ==
  \E body \in InvestmentBodies :
    /\ IF ~InvestmentBodyValid(body)
       THEN response' = BadRequest("investments") /\ UNCHANGED investments
       ELSE /\ Len(investments) < MaxStored
            /\ investments' = Append(investments, InvestmentCreated(body))
            /\ response' = [status |-> 201, route |-> "investments",
                            data |-> <<InvestmentCreated(body)>>]
    /\ UNCHANGED <<project, products, costs, financing, stmtVars,
                   depVars, loanVars, indVars, svcVars, analysisVars, reqVars>>

\* PUT /products/:id/schedule: the stored rows of the product are deleted and
\* the submitted rows created
PutProductSchedule ==
  \E id \in ProductIds, rows \in ScheduleBodies :
    /\ IF ~ScheduleBodyValid(rows)
       THEN response' = BadRequest("schedule") /\ UNCHANGED products
       ELSE IF id > Len(products)
       THEN /\ response' = [status |-> 404, route |-> "schedule", data |-> <<>>]
            /\ UNCHANGED products
       ELSE /\ products' = [products EXCEPT ![id].productionSchedule = rows]
            /\ response' = [status |-> 200, route |-> "schedule", data |-> rows]
    /\ UNCHANGED <<project, investments, costs, financing, stmtVars,
                   depVars, loanVars, indVars, svcVars, analysisVars, reqVars>>

\* GET /analysis/cashflow: generateCashFlows on the stored records
GetCashflow ==
  /\ response' = [status |-> 200, route |-> "cashflow",
                  data |-> generateCashFlows(project, investments, products, costs,
                                             financing)]
  /\ UNCHANGED <<modelVars, stmtVars, depVars, loanVars, indVars, svcVars, analysisVars, reqVars>>

\* GET /financing/:id/amortization; the :id of the request is kept with the
\* response
GetAmortization ==
  \E id \in 1..(Len(financing) + 1) :
    /\ IF id > Len(financing)
       THEN response' = [status |-> 404, route |-> "amortization", data |-> <<>>, id |-> id]
       ELSE IF financing[id].type # "loan"
       THEN response' = [status |-> 400, route |-> "amortization", data |-> <<>>, id |-> id]
       ELSE response' = [status |-> 200, route |-> "amortization", id |-> id,
                         data |-> calculateAmortizationSchedule(
                                    financing[id].amount, financing[id].interestRate,
                                    financing[id].termYears, financing[id].gracePeriod)]
    /\ UNCHANGED <<modelVars, stmtVars, depVars, loanVars, indVars, svcVars, analysisVars, reqVars>>

InitApi == ApiInit /\ StmtIdle /\ DepIdle /\ LoanIdle /\ IndIdle /\ SvcIdle /\ AnalysisIdle /\ ReqIdle

SpecApi ==
  InitApi /\ [][PostFinancing \/ PostInvestment \/ PutProductSchedule \/ GetCashflow
                  \/ GetAmortization]_vars

\* C6: a project model with a structural violation (a loan with
\* termYears <= gracePeriod, a negative amount, an unknown investment category,
\* a production-schedule year outside 1..operationYears) is rejected before any
\* computation: the request for its cash flows is answered with a 400-class
\* response and no rows.
C6_InvalidModelRejected ==
  (response.route = "cashflow" /\ StructuralViolation) =>
    /\ response.status >= 400 /\ response.status < 500
    /\ response.data = <<>>

----------------------------------------------------------------------------
(* Direct calls of calculateDebtService                                    *)

\* Bounds of the debt-service queries
MaxDebtYear == 5

DebtItems ==
  {Financing(type, 100, termYears, gracePeriod, 0, repaymentStartYear) :
     type \in {"loan", "equity", "grant"}, termYears \in {0, 2, 3},
     gracePeriod \in {0, 1}, repaymentStartYear \in {1, 2}}

DebtServiceInit ==
  /\ financing \in {<<a>> : a \in DebtItems} \cup {<<a, b>> : a, b \in DebtItems}
  /\ debtServices = <<>>
  /\ project = [constructionYears |-> 0, operationYears |-> 0,
                discountRate |-> Zero, taxRate |-> Zero]
  /\ investments = <<>> /\ products = <<>> /\ costs = <<>>
  /\ ratios = None

\* calculateDebtService for the next year, as the statement loops call it
QueryDebtService ==
  LET year == Len(debtServices)
  IN /\ year <= MaxDebtYear
     /\ debtServices' = Append(debtServices, calculateDebtService(financing, year))
     /\ UNCHANGED <<modelVars, ratios, stmtVars, response, depVars, loanVars, indVars,
                    analysisVars, reqVars>>

InitDebtService ==
  DebtServiceInit /\ StmtIdle /\ DepIdle /\ LoanIdle /\ IndIdle /\ AnalysisIdle /\ response = NoResponse /\ ReqIdle

SpecDebtService == InitDebtService /\ [][QueryDebtService]_vars

\* the instruments that repay in year Y: loans with 0 <= Y - repaymentStartYear < termYears
RepayingIn(Y) ==
  {i \in 1..Len(financing) :
     /\ financing[i].type = "loan"
     /\ 0 <= Y - financing[i].repaymentStartYear
     /\ Y - financing[i].repaymentStartYear < financing[i].termYears}

\* row (Y - repaymentStartYear + 1) of the amortisation schedule of instrument i
ScheduleRowPaidIn(i, Y) ==
  calculateAmortizationSchedule(financing[i].amount, financing[i].interestRate,
                                financing[i].termYears, financing[i].gracePeriod)
    [Y - financing[i].repaymentStartYear + 1]

\* C11: calculateDebtService(financings, Y) returns as principal and interest
\* the sums, over exactly the loans with 0 <= Y - repaymentStartYear < termYears,
\* of the principal and interest of schedule row Y - repaymentStartYear + 1;
\* equity, grants and loans outside the window add 0; total = principal + interest.
C11_DebtServiceSumsRepayingLoans ==
  \A k \in 1..Len(debtServices) :
    LET Y == k - 1
        Part(i, field) == IF i \in RepayingIn(Y) THEN ScheduleRowPaidIn(i, Y)[field] ELSE Zero
    IN /\ debtServices[k].principal = RSum([i \in 1..Len(financing) |-> Part(i, "principal")])
       /\ debtServices[k].interest = RSum([i \in 1..Len(financing) |-> Part(i, "interest")])
       /\ debtServices[k].total = RAdd(debtServices[k].principal, debtServices[k].interest)

C11_Witness ==
  /\ Len(financing) = 2 /\ Len(debtServices) > 3
  /\ financing[1].type = "loan" /\ financing[2].type = "equity"
  /\ financing[2].termYears = 2
  /\ RepayingIn(2) = {1}
  /\ debtServices[3].principal = Num(50) /\ debtServices[3].interest = Num(10)
  /\ debtServices[4].principal = Num(50) /\ debtServices[4].interest = Num(5)

----------------------------------------------------------------------------
(* Direct calls of the ratio indicators                                    *)

RatioInputs ==
  [totalNetIncome : {Num(-20), Num(50)},
   totalInvestment : {Num(0), Num(100)},
   presentValueBenefits : {Num(0), Num(150)},
   presentValueCosts : {Num(-100), Num(0), Num(100)},
   fixedCosts : {Num(0), Num(1000)},
   unitPrice : {Num(8), Num(10)},
   variableCostPerUnit : {Num(6), Num(10)}]

RatiosInit ==
  /\ totals \in RatioInputs
  /\ ratios = [roi |-> None, benefitCostRatio |-> None, breakEven |-> None]
  /\ cashFlows = <<>> /\ discountRate = 0
  /\ payback = None /\ discountedPayback = None /\ indicators = None
  /\ irrRate = Zero /\ irrIter = 0 /\ irrExit = "idle"
  /\ debtServices = <<>>

\* a direct call of calculateROI
CallROI ==
  /\ ratios.roi = None
  /\ ratios' = [ratios EXCEPT !.roi = calculateROI(totals.totalNetIncome,
                                                   totals.totalInvestment)]
  /\ UNCHANGED <<debtServices, indVars, modelVars, stmtVars, response, depVars, loanVars,
                 analysisVars, reqVars>>

\* a direct call of calculateBenefitCostRatio
CallBenefitCostRatio ==
  /\ ratios.benefitCostRatio = None
  /\ ratios' = [ratios EXCEPT !.benefitCostRatio =
                  calculateBenefitCostRatio(totals.presentValueBenefits,
                                            totals.presentValueCosts)]
  /\ UNCHANGED <<debtServices, indVars, modelVars, stmtVars, response, depVars, loanVars,
                 analysisVars, reqVars>>

\* a direct call of calculateBreakEven
CallBreakEven ==
  /\ ratios.breakEven = None
  /\ ratios' = [ratios EXCEPT !.breakEven =
                  calculateBreakEven(totals.fixedCosts, totals.unitPrice,
                                     totals.variableCostPerUnit)]
  /\ UNCHANGED <<debtServices, indVars, modelVars, stmtVars, response, depVars, loanVars,
                 analysisVars, reqVars>>

InitRatios ==
  RatiosInit /\ ModelIdle /\ StmtIdle /\ DepIdle /\ LoanIdle /\ AnalysisIdle /\ response = NoResponse /\ ReqIdle

SpecRatios == InitRatios /\ [][CallROI \/ CallBenefitCostRatio \/ CallBreakEven]_vars

\* C12: the ratio indicators never divide by zero or yield NaN: calculateROI
\* returns 0 when totalInvestment is 0, calculateBenefitCostRatio returns 0 when
\* the present value of costs is 0, calculateBreakEven returns {-1, -1} whenever
\* unitPrice - variableCostPerUnit <= 0 and otherwise
\* units = fixedCosts/(unitPrice - variableCostPerUnit), revenue = units x unitPrice.
C12_RatiosNeverDivideByZero ==
  /\ ratios.roi # None =>
       /\ IsFinite(ratios.roi)
       /\ totals.totalInvestment = Zero => ratios.roi = Zero
  /\ ratios.benefitCostRatio # None =>
       /\ IsFinite(ratios.benefitCostRatio)
       /\ totals.presentValueCosts = Zero => ratios.benefitCostRatio = Zero
  /\ ratios.breakEven # None =>
       /\ IsFinite(ratios.breakEven.units) /\ IsFinite(ratios.breakEven.revenue)
       /\ IF RLe(RSub(totals.unitPrice, totals.variableCostPerUnit), Zero)
          THEN ratios.breakEven = [units |-> Num(-1), revenue |-> Num(-1)]
          ELSE /\ RMul(ratios.breakEven.units,
                       RSub(totals.unitPrice, totals.variableCostPerUnit)) = totals.fixedCosts
               /\ ratios.breakEven.revenue = RMul(ratios.breakEven.units, totals.unitPrice)

C12_Witness ==
  /\ totals.totalInvestment = Zero /\ totals.presentValueCosts = Zero
  /\ totals.unitPrice = totals.variableCostPerUnit
  /\ RLt(Zero, totals.presentValueBenefits) /\ RLt(Zero, totals.fixedCosts)
  /\ ratios.roi = Zero /\ ratios.benefitCostRatio = Zero
  /\ ratios.breakEven = [units |-> Num(-1), revenue |-> Num(-1)]

\* every amount of an amortisation row is a finite number
RowIsFinite(row) ==
  /\ IsFinite(row.beginningBalance) /\ IsFinite(row.payment) /\ IsFinite(row.principal)
  /\ IsFinite(row.interest) /\ IsFinite(row.endingBalance)

\* C13: for a loan with termYears = 0 the amortisation schedule is empty; for a
\* loan with 0 < termYears <= gracePeriod it has termYears rows, each paying
\* principal 0 and holding no division-by-zero value, and the loan is flagged
\* with a data warning alongside the schedule.
C13_DegenerateLoanSchedules ==
  (response.route = "amortization" /\ response.status = 200) =>
    LET f == financing[response.id]
    IN /\ f.termYears = 0 => response.data = <<>>
       /\ (0 < f.termYears /\ f.termYears <= f.gracePeriod) =>
            /\ Len(response.data) = f.termYears
            /\ \A y \in 1..Len(response.data) :
                 response.data[y].principal = Zero /\ RowIsFinite(response.data[y])
            /\ "warnings" \in DOMAIN response

----------------------------------------------------------------------------
(* Scenario calculation: POST /:id/calculate of the scenario routes        *)

\* adjustments.get(variable) on new Map(assumptions.map(a => [a.variable,
\* a.adjustment])): the adjustment of the last assumption on the variable,
\* Absent (undefined) when there is none
AdjustmentGet(assum, variable) ==
  LET hits == {i \in 1..Len(assum) : assum[i].variable = variable}
  IN IF hits = {} THEN Absent
     ELSE Given(assum[CHOOSE i \in hits : \A j \in hits : j <= i].adjustment)

\* the truthiness of an adjustment: undefined, 0 and NaN are falsy
Truthy(adj) == adj # Absent /\ adj[1] # Zero /\ ~IsNaN(adj[1])

\* a || b
OrElse(a, b) == IF Truthy(a) THEN a ELSE b

\* if (adj) { x * (1 + adj / 100) }, x otherwise
Adjusted(x, adj) == IF Truthy(adj) THEN RMul(x, OnePlus(Pct(adj[1]))) ELSE x

AdjustedSchedule(productionSchedule, qtyAdj) ==
  [j \in 1..Len(productionSchedule) |->
     [productionSchedule[j] EXCEPT !.quantity = Adjusted(@, qtyAdj)]]

AdjustedProductsBy(prods, priceAdj, qtyAdj) ==
  [i \in 1..Len(prods) |->
     [unitPrice |-> Adjusted(prods[i].unitPrice, priceAdj),
      priceEscalation |-> prods[i].priceEscalation,
      productionSchedule |-> AdjustedSchedule(prods[i].productionSchedule, qtyAdj)]]

adjustedProducts(prods, assum) ==
  AdjustedProductsBy(prods,
                     OrElse(AdjustmentGet(assum, "price"), AdjustmentGet(assum, "revenue")),
                     OrElse(AdjustmentGet(assum, "quantity"), AdjustmentGet(assum, "sales")))

AdjustedAmounts(items, adj) ==
  [i \in 1..Len(items) |-> [items[i] EXCEPT !.amount = Adjusted(@, adj)]]

adjustedCosts(cs, assum) ==
  AdjustedAmounts(cs, OrElse(AdjustmentGet(assum, "costs"),
                             AdjustmentGet(assum, "operatingCosts")))

adjustedInvestments(invs, assum) == AdjustedAmounts(invs, AdjustmentGet(assum, "investment"))

\* cashFlows.map(cf => cf.netCashFlow)
NetCashFlows(rows) == [i \in 1..Len(rows) |-> rows[i].netCashFlow]

\* generateIncomeStatements: the rows of the years 1 .. totalYears
generateIncomeStatements(p, invs, prods, cs, fin) ==
  [year \in 1..TotalYears(p) |-> IncomeStatementRow(p, invs, prods, cs, fin, year)]

\* items.reduce((sum, x) => sum + x.amount, 0)
SumAmounts(items) == RSum([i \in 1..Len(items) |-> items[i].amount])

\* the totals the routes hand to calculateAllIndicators
TotalInvestment(invs) == SumAmounts(invs)

TotalNetIncome(statements) == RSum([i \in 1..Len(statements) |-> statements[i].netIncome])

FixedCosts(cs) == SumAmounts(SelectSeq(cs, LAMBDA c : c.costType = "fixed"))

AvgUnitPrice(prods) ==
  IF Len(prods) > 0
  THEN RDiv(RSum([i \in 1..Len(prods) |-> prods[i].unitPrice]), Num(Len(prods)))
  ELSE Zero

VariableUnitCosts(variableCosts) ==
  IF Len(variableCosts) > 0
  THEN RSum([i \in 1..Len(variableCosts) |-> variableCosts[i].unitCost])
  ELSE Zero

AvgVariableCost(cs) == VariableUnitCosts(SelectSeq(cs, LAMBDA c : c.costType = "variable"))

\* the internal rate of return of a series, kept as the call itself: the
\* Newton iteration of calculateIRR is run step by step under SpecIndicators
IRROf(cf) == [irrOf |-> cf]

\* the fields of the indicator bundle the route saves as the scenario result
SavedResult(ind) ==
  [npv |-> ind.npv, irr |-> ind.irr, mirr |-> ind.mirr,
   paybackPeriod |-> ind.paybackPeriod,
   discountedPaybackPeriod |-> ind.discountedPaybackPeriod,
   roi |-> ind.roi, benefitCostRatio |-> ind.benefitCostRatio]

\* the route from generateCashFlows to the saved result, on the adjusted
\* investments, products and costs and the project's own financing
IndicatorsOfModel(p, invs, prods, cs, fin, cf) ==
  SavedResult(AllIndicators(cf, p.discountRate, TotalInvestment(invs),
                            TotalNetIncome(generateIncomeStatements(p, invs, prods, cs, fin)),
                            FixedCosts(cs), AvgUnitPrice(prods), AvgVariableCost(cs),
                            IRROf(cf)))

ScenarioIndicators(p, invs, prods, cs, fin) ==
  IndicatorsOfModel(p, invs, prods, cs, fin,
                    NetCashFlows(generateCashFlows(p, invs, prods, cs, fin)))

calculateScenario(p, invs, prods, cs, fin, assum) ==
  ScenarioIndicators(p, adjustedInvestments(invs, assum), adjustedProducts(prods, assum),
                     adjustedCosts(cs, assum), fin)

----------------------------------------------------------------------------
(* Sensitivity driver (sensitivity.ts)                                     *)

\* xs.map(x => x * factor)
Scaled(xs, factor) == [i \in 1..Len(xs) |-> RMul(xs[i], factor)]

\* applyVariation with the bare variation as the factor
ApplyVariationBareFactor(inputs, variable, variation) ==
  LET factor == Pct(Num(variation))
  IN IF variable \in {"revenue", "price", "sales"}
     THEN [inputs EXCEPT !.revenue = Scaled(inputs.revenue, factor)]
     ELSE IF variable \in {"operatingCosts", "costs"}
     THEN [inputs EXCEPT !.operatingCosts = Scaled(inputs.operatingCosts, factor)]
     ELSE IF variable \in {"investment", "investmentCost"}
     THEN [inputs EXCEPT !.investmentCost = RMul(inputs.investmentCost, factor)]
     ELSE IF variable = "discountRate"
     THEN [inputs EXCEPT !.discountRate = RMul(inputs.discountRate, factor)]
     ELSE inputs

applyVariation(inputs, variable, variation) ==
  LET factor == OnePlus(Pct(Num(variation)))
  IN IF variable \in {"revenue", "price", "sales"}
     THEN [inputs EXCEPT !.revenue = Scaled(inputs.revenue, factor)]
     ELSE IF variable \in {"operatingCosts", "costs"}
     THEN [inputs EXCEPT !.operatingCosts = Scaled(inputs.operatingCosts, factor)]
     ELSE IF variable \in {"investment", "investmentCost"}
     THEN [inputs EXCEPT !.investmentCost = RMul(inputs.investmentCost, factor)]
     ELSE IF variable = "discountRate"
     THEN [inputs EXCEPT !.discountRate = RMul(inputs.discountRate, factor)]
     ELSE inputs

\* [-investmentCost, revenue[i] - operatingCosts[i], ...]
recalculateCashFlows(inputs) ==
  <<RNeg(inputs.investmentCost)>> \o
  [i \in 1..Len(inputs.revenue) |-> RSub(inputs.revenue[i], inputs.operatingCosts[i])]

\* the record one iteration of calculateSensitivity pushes, modifiedCashFlows
\* being recalculateCashFlows(modifiedInputs)
SensitivityResult(variable, variation, modified, modifiedCashFlows) ==
  [variable |-> variable, variation |-> variation,
   npv |-> calculateNPV(modifiedCashFlows, modified.discountRate),
   irr |-> IRROf(modifiedCashFlows)]

\* the insertion of x behind every element whose key is not greater
RECURSIVE InsertByKey(_, _)
InsertByKey(sorted, x) ==
  IF sorted = <<>> THEN <<x>>
  ELSE IF RLt(x.key, Head(sorted).key) THEN <<x>> \o sorted
  ELSE <<Head(sorted)>> \o InsertByKey(Tail(sorted), x)

\* Array.prototype.sort with the comparator (a, b) => a.key - b.key: stable,
\* ascending
RECURSIVE StableSort(_)
StableSort(keyed) ==
  IF keyed = <<>> THEN <<>>
  ELSE InsertByKey(StableSort(SubSeq(keyed, 1, Len(keyed) - 1)), keyed[Len(keyed)])

Unkeyed(keyed) == [i \in 1..Len(keyed) |-> keyed[i].value]

\* results.sort((a, b) => a.variation - b.variation)
SortedByVariation(results) ==
  Unkeyed(StableSort([i \in 1..Len(results) |->
                        [key |-> Num(results[i].variation), value |-> results[i]]]))

\* the rows sorted by rising impact
SortedByImpactAscending(rows) ==
  Unkeyed(StableSort([i \in 1..Len(rows) |->
                        [key |-> rows[i].impact, value |-> rows[i]]]))

\* tornadoData.sort((a, b) => b.impact - a.impact)
SortedByImpact(rows) ==
  Unkeyed(StableSort([i \in 1..Len(rows) |->
                        [key |-> RNeg(rows[i].impact), value |-> rows[i]]]))

\* the keys of the Map `grouped`, in the order of their first result
RECURSIVE GroupKeys(_)
GroupKeys(results) ==
  IF results = <<>> THEN <<>>
  ELSE LET rest == GroupKeys(SubSeq(results, 1, Len(results) - 1))
           variable == results[Len(results)].variable
       IN IF \E i \in 1..Len(rest) : rest[i] = variable THEN rest
          ELSE Append(rest, variable)

\* the body of grouped.forEach: the row of one variable, `sorted` being its
\* results sorted by variation; no row without a result at variation 0
TornadoRow(variable, sorted) ==
  LET zeros == {i \in 1..Len(sorted) : sorted[i].variation = 0}
  IN IF zeros = {} THEN <<>>
     ELSE <<[variable |-> variable,
             lowNPV |-> sorted[1].npv,
             baseNPV |-> sorted[CHOOSE i \in zeros : \A j \in zeros : i <= j].npv,
             highNPV |-> sorted[Len(sorted)].npv,
             impact |-> RAbs(RSub(sorted[Len(sorted)].npv, sorted[1].npv))]>>

RECURSIVE TornadoRows(_, _, _)
TornadoRows(results, keys, k) ==
  IF k > Len(keys) THEN <<>>
  ELSE TornadoRow(keys[k],
                  SortedByVariation(SelectSeq(results, LAMBDA r : r.variable = keys[k])))
       \o TornadoRows(results, keys, k + 1)

generateTornadoData(results) ==
  SortedByImpact(TornadoRows(results, GroupKeys(results), 1))

----------------------------------------------------------------------------
(* The analysis routes: POST /sensitivity and the scenario calculation     *)

\* the variations the sensitivity route asks for
variations == <<-20, -15, -10, -5, 0, 5, 10, 15, 20>>

\* the inputs the route extracts from the base cash flows
ExtractInputs(p, invs, rows) ==
  [revenue |-> [i \in 1..(Len(rows) - 1) |-> rows[i + 1].operatingInflow],
   operatingCosts |-> [i \in 1..(Len(rows) - 1) |-> rows[i + 1].operatingOutflow],
   investmentCost |-> SumAmounts(invs),
   discountRate |-> p.discountRate,
   cashFlows |-> NetCashFlows(rows)]

\* the project models the analysis routes are run on
AnalysisProject(constructionYears, operationYears) ==
  [constructionYears |-> constructionYears, operationYears |-> operationYears,
   discountRate |-> Num(25), taxRate |-> Num(25)]

Product(unitPrice, priceEscalation, productionSchedule) ==
  [unitPrice |-> Num(unitPrice), priceEscalation |-> Num(priceEscalation),
   productionSchedule |-> productionSchedule]

Cost(costType, amount, unitCost, escalationRate, startYear) ==
  [costType |-> costType, amount |-> Num(amount), unitCost |-> Num(unitCost),
   escalationRate |-> Num(escalationRate), startYear |-> startYear]

AnalysisModels ==
  {[project |-> AnalysisProject(0, 2),
    investments |-> <<Investment("machinery", 10, 0, 2, "straight_line")>>,
    products |-> <<Product(1, 10, <<ScheduleRow(1, 10), ScheduleRow(2, 10)>>)>>,
    costs |-> <<Cost("fixed", 3, 0, 0, 1)>>,
    financing |-> <<>>],
   [project |-> AnalysisProject(0, 2),
    investments |-> <<Investment("machinery", 10, 0, 2, "straight_line")>>,
    products |-> <<Product(1, 0, <<ScheduleRow(1, 10), ScheduleRow(2, 12)>>)>>,
    costs |-> <<Cost("fixed", 3, 0, 0, 1)>>,
    financing |-> <<Financing("loan", 10, 2, 0, 0, 1)>>],
   [project |-> AnalysisProject(1, 1),
    investments |-> <<Investment("machinery", 10, 1, 2, "declining_balance")>>,
    products |-> <<Product(1, 0, <<ScheduleRow(1, 20)>>)>>,
    costs |-> <<Cost("fixed", 3, 0, 0, 1)>>,
    financing |-> <<Financing("equity", 10, 0, 0, 0, 1)>>],
   [project |-> AnalysisProject(0, 2),
    investments |-> <<Investment("machinery", 10, 0, 2, "straight_line"),
                      Investment("working_capital", 5, 1, 0, "none")>>,
    products |-> <<Product(1, 0, <<ScheduleRow(1, 10), ScheduleRow(2, 20)>>),
                   Product(2, 0, <<ScheduleRow(2, 5)>>)>>,
    costs |-> <<Cost("variable", 4, 1, 0, 2), Cost("fixed", 2, 0, 0, 1)>>,
    financing |-> <<Financing("equity", 5, 0, 0, 0, 1),
                    Financing("loan", 10, 2, 0, 0, 1)>>],
   [project |-> AnalysisProject(0, 1),
    investments |-> <<>>, products |-> <<>>, costs |-> <<>>,
    financing |-> <<Financing("grant", 5, 0, 0, 0, 1)>>]}

Assumption(variable, adjustment) == [variable |-> variable, adjustment |-> Num(adjustment)]

AssumptionVariables ==
  {"price", "revenue", "quantity", "sales", "costs", "operatingCosts", "investment",
   "discountRate"}

\* the assumptions of the stored scenario
AssumptionLists ==
  {<<>>}
  \cup {<<Assumption(v, a)>> : v \in AssumptionVariables, a \in {-20, 0, 10}}
  \cup {<<Assumption("price", 0), Assumption("revenue", 10)>>,
        <<Assumption("price", 10), Assumption("price", -20)>>,
        <<Assumption("costs", 0), Assumption("investment", 0)>>,
        <<Assumption("discountRate", 10), Assumption("quantity", 10)>>,
        <<Assumption("price", 0), Assumption("quantity", 0), Assumption("costs", 0),
          Assumption("investment", 0), Assumption("discountRate", 0)>>}

\* the `variables` of the body of a sensitivity request
VariableLists ==
  {<<>>,
   <<"revenue">>,
   <<"costs", "discountRate">>,
   <<"investment", "price", "revenue">>,
   <<"sales", "operatingCosts", "investmentCost">>,
   <<"quantity", "discountRate">>}

\* a project with a stored scenario to calculate, a sensitivity request to
\* answer, or both
AnalysisInit ==
  /\ \E m \in AnalysisModels :
       /\ project = m.project /\ investments = m.investments /\ products = m.products
       /\ costs = m.costs /\ financing = m.financing
  /\ \/ assumptions \in {Given(a) : a \in AssumptionLists} /\ variables = Absent
     \/ assumptions = Absent /\ variables \in {Given(v) : v \in VariableLists}
     \/ /\ assumptions \in {Given(a) : a \in {l \in AssumptionLists : Len(l) > 1}}
        /\ variables \in {Given(v) : v \in {l \in VariableLists : Len(l) < 3}}
  /\ scenarioResult = None
  /\ baseInputs = None /\ modifiedInputs = None
  /\ sensitivityResults = <<>> /\ tornadoData = None
  /\ response = NoResponse

\* POST /:id/calculate: 404 without the scenario; the indicators of the
\* adjusted project are saved as the result of the scenario and returned
CalculateScenario ==
  /\ IF assumptions = Absent
     THEN /\ response' = [status |-> 404, route |-> "scenario", data |-> <<>>]
          /\ UNCHANGED scenarioResult
     ELSE \E result \in {calculateScenario(project, investments, products, costs,
                                           financing, assumptions[1])} :
            /\ scenarioResult' = result
            /\ response' = [status |-> 200, route |-> "scenario", data |-> <<result>>]
  /\ UNCHANGED <<assumptions, variables, baseInputs, modifiedInputs, sensitivityResults,
                 tornadoData, modelVars, stmtVars, depVars, loanVars, indVars, svcVars, reqVars>>

\* POST /sensitivity up to the call of calculateSensitivity: the base cash
\* flows and the inputs extracted from them
PostSensitivity ==
  /\ variables # Absent /\ baseInputs = None
  /\ baseInputs' = ExtractInputs(project, investments,
                                 generateCashFlows(project, investments, products, costs,
                                                   financing))
  /\ UNCHANGED <<assumptions, scenarioResult, variables, modifiedInputs,
                 sensitivityResults, tornadoData, response,
                 modelVars, stmtVars, depVars, loanVars, indVars, svcVars, reqVars>>

\* one iteration of the loops of calculateSensitivity
SensitivityVariation ==
  LET k == Len(sensitivityResults)
      variable == variables[1][(k \div Len(variations)) + 1]
      variation == variations[(k % Len(variations)) + 1]
  IN /\ baseInputs # None
     /\ k < Len(variables[1]) * Len(variations)
     /\ \E modified \in {applyVariation(baseInputs, variable, variation)} :
          /\ modifiedInputs' = modified
          /\ sensitivityResults' =
               Append(sensitivityResults,
                      SensitivityResult(variable, variation, modified,
                                        recalculateCashFlows(modified)))
     /\ UNCHANGED <<assumptions, scenarioResult, variables, baseInputs, tornadoData,
                    response, modelVars, stmtVars, depVars, loanVars, indVars, svcVars, reqVars>>

\* the rest of POST /sensitivity: the tornado data and the response
RespondSensitivity ==
  /\ baseInputs # None
  /\ Len(sensitivityResults) = Len(variables[1]) * Len(variations)
  /\ \E tornado \in {generateTornadoData(sensitivityResults)} :
       /\ tornadoData' = tornado
       /\ response' = [status |-> 200, route |-> "sensitivity",
                       data |-> <<[results |-> sensitivityResults, tornado |-> tornado]>>]
  /\ UNCHANGED <<assumptions, scenarioResult, variables, baseInputs, modifiedInputs,
                 sensitivityResults, modelVars, stmtVars, depVars, loanVars, indVars,
                 svcVars, reqVars>>

InitAnalysis == AnalysisInit /\ DepIdle /\ LoanIdle /\ IndIdle /\ SvcIdle /\ StmtIdle /\ ReqIdle

SpecAnalysis ==
  InitAnalysis
  /\ [][CalculateScenario \/ PostSensitivity \/ SensitivityVariation
        \/ RespondSensitivity]_vars

----------------------------------------------------------------------------
(* Claims about the analysis routes, checked under SpecAnalysis            *)

\* the sensitivity route has answered
SensitivityAnswered == response.route = "sensitivity"

\* the NPVs recorded for a variable across its variations
NPVsOf(results, variable) ==
  {results[i].npv : i \in {j \in 1..Len(results) : results[j].variable = variable}}

\* the NPVs recorded for a variable at variation 0
BaseNPVsOf(results, variable) ==
  {results[i].npv : i \in {j \in 1..Len(results) :
                              results[j].variable = variable /\ results[j].variation = 0}}

\* C14: each tornado row has lowNPV the minimum and highNPV the maximum of the
\* NPVs recorded for its variable, so that lowNPV <= baseNPV <= highNPV,
\* baseNPV the NPV at variation 0 and impact = |highNPV - lowNPV|
C14_TornadoLowIsMinHighIsMax ==
  SensitivityAnswered =>
    \A k \in 1..Len(response.data[1].tornado) :
      LET row == response.data[1].tornado[k]
          npvs == NPVsOf(response.data[1].results, row.variable)
      IN /\ row.lowNPV \in npvs /\ row.highNPV \in npvs
         /\ \A n \in npvs : RLe(row.lowNPV, n) /\ RLe(n, row.highNPV)
         /\ row.baseNPV \in BaseNPVsOf(response.data[1].results, row.variable)
         /\ RLe(row.lowNPV, row.baseNPV) /\ RLe(row.baseNPV, row.highNPV)
         /\ row.impact = RAbs(RSub(row.highNPV, row.lowNPV))

\* the net cash flow series generateCashFlows produces for the unadjusted
\* project
BaseNetCashFlows ==
  NetCashFlows(generateCashFlows(project, investments, products, costs, financing))

\* C15: every sensitivity record at variation 0 has the NPV of the base
\* project's own net cash flow series at the base discount rate
C15_ZeroVariationIsBaseNPV ==
  \A i \in 1..Len(sensitivityResults) :
    sensitivityResults[i].variation = 0 =>
      sensitivityResults[i].npv = calculateNPV(BaseNetCashFlows, project.discountRate)

\* the delta of the stored scenario on 'discountRate', 0 without one
DiscountRateDelta ==
  IF AdjustmentGet(assumptions[1], "discountRate") = Absent THEN Zero
  ELSE AdjustmentGet(assumptions[1], "discountRate")[1]

\* the indicators of the scenario when the discount rate of the project is
\* discountRate x (1 + d/100)
ScenarioAtAdjustedRate ==
  calculateScenario([project EXCEPT !.discountRate = RMul(@, OnePlus(Pct(DiscountRateDelta)))],
                    investments, products, costs, financing, assumptions[1])

\* C16: a delta d on 'discountRate' makes the rate-dependent indicators be
\* computed with discountRate x (1 + d/100), in the scenario calculation and
\* in the sensitivity driver
C16_DiscountRateDeltaApplied ==
  /\ scenarioResult # None =>
       /\ scenarioResult.npv = ScenarioAtAdjustedRate.npv
       /\ scenarioResult.mirr = ScenarioAtAdjustedRate.mirr
       /\ scenarioResult.discountedPaybackPeriod =
            ScenarioAtAdjustedRate.discountedPaybackPeriod
       /\ scenarioResult.benefitCostRatio = ScenarioAtAdjustedRate.benefitCostRatio
  /\ \A i \in 1..Len(sensitivityResults) :
       sensitivityResults[i].variable = "discountRate" =>
         sensitivityResults[i].npv =
           calculateNPV(recalculateCashFlows(baseInputs),
                        RMul(baseInputs.discountRate,
                             OnePlus(Pct(Num(sensitivityResults[i].variation)))))

\* every assumption of the stored scenario has adjustment 0
AllZeroAssumptions ==
  /\ assumptions # Absent
  /\ \A i \in 1..Len(assumptions[1]) : assumptions[1][i].adjustment = Zero

\* the last iteration of the sensitivity loops applied variation 0
ZeroVariationApplied ==
  /\ Len(sensitivityResults) > 0
  /\ sensitivityResults[Len(sensitivityResults)].variation = 0

\* C17: a zero delta changes nothing: a scenario whose assumptions are all 0
\* has the indicator bundle of the unadjusted project, and applyVariation at
\* variation 0 returns revenue, operatingCosts, investmentCost and discountRate
\* equal to those of its inputs, whatever the variable
C17_ZeroDeltaIsIdentity ==
  /\ (scenarioResult # None /\ AllZeroAssumptions) =>
       scenarioResult = ScenarioIndicators(project, investments, products, costs, financing)
  /\ ZeroVariationApplied =>
       /\ modifiedInputs.revenue = baseInputs.revenue
       /\ modifiedInputs.operatingCosts = baseInputs.operatingCosts
       /\ modifiedInputs.investmentCost = baseInputs.investmentCost
       /\ modifiedInputs.discountRate = baseInputs.discountRate

\* an all-zero scenario with several assumptions has been calculated, and
\* variation 0 has just been applied to the discount rate of a project with
\* revenue
C17_Witness ==
  /\ scenarioResult # None /\ AllZeroAssumptions /\ Len(assumptions[1]) > 1
  /\ ZeroVariationApplied
  /\ sensitivityResults[Len(sensitivityResults)].variable = "discountRate"
  /\ Len(baseInputs.revenue) = 2 /\ baseInputs.revenue[1] # Zero

----------------------------------------------------------------------------
(* Claims relating the statements to each other, checked under SpecStatements *)

\* the principal calculateDebtService charges for one financing item in the
\* years 0 .. Y
PrincipalChargedUpTo(f, Y) ==
  RSum([y \in 1..(Y + 1) |-> calculateDebtService(<<f>>, y - 1).principal])

\* the amount of a loan less the principal charged for it up to year Y
RemainingPrincipal(f, Y) ==
  IF f.type = "loan" THEN RSub(f.amount, PrincipalChargedUpTo(f, Y)) ELSE Zero

\* C18: in the balance sheet of every year Y the long-term debt is, loan by
\* loan, the amount of the loan less the principal calculateDebtService has
\* charged for it in the years up to Y
C18_LongTermDebtIsRemainingPrincipal ==
  \A k \in 1..Len(balanceSheets) :
    balanceSheets[k].longTermDebt =
      RSum([i \in 1..Len(financing) |-> RemainingPrincipal(financing[i], k - 1)])

\* C20: in every year Y from 1 to constructionYears + operationYears the
\* taxes inside the operating outflow of the cash-flow row, i.e. the outflow
\* less the escalated operating costs of Y, are the taxes of the income
\* statement of Y
C20_CashFlowTaxesMatchIncomeStatement ==
  \A Y \in 1..Len(incomeStatements) :
    RSub(cashFlowRows[Y + 1].operatingOutflow,
         OperatingCosts(project, costs, CostTypes, Y))
      = incomeStatements[Y].taxes

\* both statements are complete for a project with a construction year, costs
\* and a loan paying interest, and taxes are charged in an operating year in
\* which interest and depreciation are deducted
C20_Witness ==
  /\ Len(incomeStatements) = TotalYears(project)
  /\ project.constructionYears = 1 /\ costs # <<>>
  /\ \E Y \in 1..Len(incomeStatements) :
       /\ Y > project.constructionYears
       /\ RLt(Zero, incomeStatements[Y].taxes)
       /\ RLt(Zero, incomeStatements[Y].interestExpense)
       /\ RLt(Zero, incomeStatements[Y].depreciation)
       /\ RLt(incomeStatements[Y].taxes, cashFlowRows[Y + 1].operatingOutflow)

\* generateCashFlows has returned: its loop has run through the last year
CashFlowsReturned == Len(cashFlowRows) = TotalYears(project) + 1

\* C21: generateCashFlows returns one row per year 0 .. constructionYears +
\* operationYears in ascending order; in each row the net cash flow is
\* operatingInflow - operatingOutflow - investingOutflow + financingInflow -
\* financingOutflow, and the cumulative cash flow is the sum of the net cash
\* flows of the rows up to it
C21_CashFlowRowsWellFormed ==
  /\ Len(cashFlowRows) <= TotalYears(project) + 1
  /\ Len(incomeStatements) > 0 => CashFlowsReturned
  /\ \A k \in 1..Len(cashFlowRows) :
       /\ cashFlowRows[k].year = k - 1
       /\ cashFlowRows[k].netCashFlow =
            RSub(RAdd(RSub(RSub(cashFlowRows[k].operatingInflow,
                                cashFlowRows[k].operatingOutflow),
                           cashFlowRows[k].investingOutflow),
                      cashFlowRows[k].financingInflow),
                 cashFlowRows[k].financingOutflow)
       /\ cashFlowRows[k].cumulativeCashFlow =
            RSum([j \in 1..k |-> cashFlowRows[j].netCashFlow])

\* the rows of a three-year project are complete: one of them has revenue,
\* operating outflow and debt service at once, one an investment and one a
\* disbursement
C21_Witness ==
  /\ CashFlowsReturned /\ TotalYears(project) = 3
  /\ \E k \in 1..Len(cashFlowRows) :
       /\ RLt(Zero, cashFlowRows[k].operatingInflow)
       /\ RLt(Zero, cashFlowRows[k].operatingOutflow)
       /\ RLt(Zero, cashFlowRows[k].financingOutflow)
  /\ \E k \in 1..Len(cashFlowRows) : RLt(Zero, cashFlowRows[k].investingOutflow)
  /\ \E k \in 1..Len(cashFlowRows) : RLt(Zero, cashFlowRows[k].financingInflow)

\* quantity x unitPrice x (1 + priceEscalation/100)^(o - 1) over the schedule
\* rows of operating year o
ScheduledRevenue(product, o) ==
  RSum([k \in 1..Len(product.productionSchedule) |->
          IF product.productionSchedule[k].year = o
          THEN RMul(RMul(product.productionSchedule[k].quantity, product.unitPrice),
                    RPow(OnePlus(Pct(product.priceEscalation)), o - 1))
          ELSE Zero])

\* nothing before startYear, the amount in startYear and the amount
\* compounded by the years since startYear afterwards
AnchoredCost(cost, o) ==
  IF o < cost.startYear THEN Zero
  ELSE IF o = cost.startYear THEN cost.amount
  ELSE RMul(cost.amount, RPow(OnePlus(Pct(cost.escalationRate)), o - cost.startYear))

\* the revenue and the costs of a type the claim expects in year Y
RevenueExpected(Y) ==
  IF Y <= project.constructionYears THEN Zero
  ELSE RSum([i \in 1..Len(products) |->
               ScheduledRevenue(products[i], Y - project.constructionYears)])

CostsExpected(Y, costType) ==
  IF Y <= project.constructionYears THEN Zero
  ELSE RSum([i \in 1..Len(costs) |->
               IF costs[i].costType = costType
               THEN AnchoredCost(costs[i], Y - project.constructionYears)
               ELSE Zero])

\* C22: revenue and operating costs are zero up to the last construction
\* year; in operating year o a product adds quantity x unitPrice x
\* (1 + priceEscalation/100)^(o - 1) for its schedule row of year o, and a
\* cost adds nothing before its startYear, its amount in startYear and the
\* amount compounded by o - startYear afterwards, in the cash flows and in the
\* income statements alike
C22_RevenueAndCostsAnchored ==
  /\ \A k \in 1..Len(cashFlowRows) :
       /\ cashFlowRows[k].operatingInflow = RevenueExpected(k - 1)
       /\ k - 1 <= project.constructionYears => cashFlowRows[k].operatingOutflow = Zero
  /\ \A Y \in 1..Len(incomeStatements) :
       /\ incomeStatements[Y].revenue = RevenueExpected(Y)
       /\ incomeStatements[Y].costOfGoodsSold = CostsExpected(Y, "variable")
       /\ incomeStatements[Y].operatingExpenses = CostsExpected(Y, "fixed")
       /\ cashFlowRows[Y + 1].operatingOutflow =
            RAdd(RAdd(CostsExpected(Y, "variable"), CostsExpected(Y, "fixed")),
                 incomeStatements[Y].taxes)

\* the statements of a project with a construction year and two operating
\* years are complete: the price is escalated in the second operating year
\* and a cost starts in that year
C22_Witness ==
  /\ Len(incomeStatements) = 3 /\ project.constructionYears = 1
  /\ Len(products) = 1 /\ products[1].priceEscalation # Zero
  /\ Len(products[1].productionSchedule) = 2
  /\ RLt(incomeStatements[2].revenue, incomeStatements[3].revenue)
  /\ Len(costs) = 1 /\ costs[1].startYear = 2
  /\ incomeStatements[2].costOfGoodsSold = Zero
  /\ incomeStatements[3].costOfGoodsSold = costs[1].amount

\* the investments that are neither land nor working capital
DepreciableInvestments == SelectSeq(investments, LAMBDA inv : inv.category \notin {"land", "working_capital"})

\* C24: land and working capital are never depreciated, whatever their method,
\* life and rate: the taxes in the cash flows, the depreciation of the income
\* statements and the accumulated depreciation of the balance sheets are
\* those of the project without these investments, and are free of
\* depreciation when it has no others
C24_LandAndWorkingCapitalNotDepreciated ==
  /\ \A k \in 1..Len(cashFlowRows) :
       cashFlowRows[k].operatingOutflow =
         CashFlowRow(project, DepreciableInvestments, products, costs, financing,
                     k - 1, Zero).operatingOutflow
  /\ \A Y \in 1..Len(incomeStatements) :
       /\ incomeStatements[Y].depreciation =
            IncomeStatementRow(project, DepreciableInvestments, products, costs,
                               financing, Y).depreciation
       /\ DepreciableInvestments = <<>> => incomeStatements[Y].depreciation = Zero
  /\ \A k \in 1..Len(balanceSheets) :
       /\ balanceSheets[k].accumulatedDepreciation =
            BalanceSheetRow(DepreciableInvestments, financing, incomeStatements,
                            k - 1, Zero, Zero).accumulatedDepreciation
       /\ DepreciableInvestments = <<>> => balanceSheets[k].accumulatedDepreciation = Zero

\* the statements are complete for a project holding a machine next to
\* working capital with a depreciation method, a life and no salvage value:
\* the machine alone is depreciated
C24_Witness ==
  /\ Len(balanceSheets) = TotalYears(project) + 1
  /\ Len(DepreciableInvestments) = 1 /\ Len(investments) = 2
  /\ \E i \in 1..Len(investments) :
       /\ investments[i].category = "working_capital"
       /\ investments[i].depreciationMethod = "straight_line"
       /\ investments[i].usefulLife > 0
       /\ RLt(investments[i].salvageValue, investments[i].amount)
  /\ products # <<>>
  /\ \E Y \in 1..Len(incomeStatements) :
       /\ RLt(Zero, incomeStatements[Y].depreciation)
       /\ RLt(Zero, incomeStatements[Y].taxes)

----------------------------------------------------------------------------
(* Direct calls of generateTornadoData                                     *)

\* Bound of the number of results handed to generateTornadoData
MaxResults == 4

\* sensitivity results as a caller may hand them over: in any order, with or
\* without a result at variation 0, a variable more than once
ResultRecords ==
  [variable : {"price", "costs"}, variation : {0, 10}, npv : {Num(-5), Num(7)},
   irr : {Zero}]

ResultLists == UNION {[1..n -> ResultRecords] : n \in 0..MaxResults}

TornadoInit ==
  /\ sensitivityResults \in ResultLists /\ tornadoData = None
  /\ assumptions = <<>> /\ scenarioResult = None /\ variables = <<>>
  /\ baseInputs = None /\ modifiedInputs = None
  /\ response = NoResponse

\* a call of generateTornadoData on the results; the rows it returns are kept
\* as the answer to the caller
CallTornadoData ==
  /\ response = NoResponse
  /\ \E tornado \in {generateTornadoData(sensitivityResults)} :
       /\ tornadoData' = tornado
       /\ response' = [status |-> 200, route |-> "generateTornadoData", data |-> tornado]
  /\ UNCHANGED <<assumptions, scenarioResult, variables, baseInputs, modifiedInputs,
                 sensitivityResults, modelVars, stmtVars, depVars, loanVars, indVars,
                 svcVars, reqVars>>

InitTornado ==
  TornadoInit /\ DepIdle /\ LoanIdle /\ IndIdle /\ ModelIdle /\ StmtIdle /\ SvcIdle /\ ReqIdle

SpecTornado == InitTornado /\ [][CallTornadoData]_vars

\* generateTornadoData has returned
TornadoReturned == response.route = "generateTornadoData"

\* C25: generateTornadoData returns at most one row per variable, a row only
\* for a variable with a result at variation 0, and the rows by falling impact
C25_TornadoRowsOrdered ==
  TornadoReturned =>
    /\ \A i \in 1..Len(response.data) : \A j \in 1..Len(response.data) :
         response.data[i].variable = response.data[j].variable => i = j
    /\ \A i \in 1..Len(response.data) :
         \E k \in 1..Len(sensitivityResults) :
           /\ sensitivityResults[k].variable = response.data[i].variable
           /\ sensitivityResults[k].variation = 0
    /\ \A i \in 1..(Len(response.data) - 1) :
         RLe(response.data[i + 1].impact, response.data[i].impact)

\* two rows are returned, the variable of larger impact first although its
\* results came last
C25_Witness ==
  /\ TornadoReturned /\ Len(response.data) = 2
  /\ RLt(response.data[2].impact, response.data[1].impact)
  /\ response.data[2].variable = sensitivityResults[1].variable

\* the depreciation charged in the income statements of the years up to Y
IncomeDepreciationUpTo(Y) ==
  RSum([y \in 1..Y |-> incomeStatements[y].depreciation])

\* C26: in every year Y the accumulated depreciation of the balance sheet is
\* the sum of the depreciation charged in the income statements of the years
\* up to Y
C26_AccumulatedIsIncomeDepreciation ==
  \A k \in 1..Len(balanceSheets) :
    balanceSheets[k].accumulatedDepreciation = IncomeDepreciationUpTo(k - 1)

----------------------------------------------------------------------------
(* Concurrent PUT /products/:id/schedule requests                          *)

\* Bounds of the concurrent requests
MaxRequests == 2

\* the bodies the clients submit: full schedules, single rows, an empty
\* schedule and a row that fails the validation
SubmittedSchedules ==
  {<<ScheduleRow(1, 10), ScheduleRow(2, 10)>>, <<ScheduleRow(1, 20)>>,
   <<ScheduleRow(2, 30)>>, <<>>, <<ScheduleRow(0, 10)>>}

\* a request as it arrives: its :id, its body, the await its handler stands
\* at and the creates of Promise.all that have not reached the table yet
Request(id, body) == [id |-> id, schedule |-> body, at |-> "findFirst", pending |-> {}]

\* one product with a stored schedule, and the requests that have arrived
ScheduleInit ==
  /\ project = [constructionYears |-> 1, operationYears |-> 2,
                discountRate |-> Num(10), taxRate |-> Num(25)]
  /\ investments = <<>> /\ costs = <<>> /\ financing = <<>>
  /\ products = <<[unitPrice |-> Num(10), priceEscalation |-> Num(0),
                   productionSchedule |-> <<ScheduleRow(1, 5)>>]>>
  /\ response = NoResponse
  /\ requests \in [1..MaxRequests -> {Request(id, body) : id \in 1..2,
                                                          body \in SubmittedSchedules}]

\* the validation chain and the findFirst of the handler: a 400 for a body
\* that fails the validation, a 404 for an unknown product
FindProduct(r) ==
  /\ requests[r].at = "findFirst"
  /\ IF ~ScheduleBodyValid(requests[r].schedule)
     THEN /\ response' = BadRequest("schedule")
          /\ requests' = [requests EXCEPT ![r].at = "done"]
     ELSE IF requests[r].id > Len(products)
     THEN /\ response' = [status |-> 404, route |-> "schedule", data |-> <<>>]
          /\ requests' = [requests EXCEPT ![r].at = "done"]
     ELSE /\ requests' = [requests EXCEPT ![r].at = "deleteMany"]
          /\ UNCHANGED response
  /\ UNCHANGED <<modelVars, stmtVars, depVars, loanVars, indVars, svcVars, analysisVars>>

\* productionSchedule.deleteMany: the stored rows of the product are deleted;
\* when it resolves the handler issues one create per submitted row
DeleteMany(r) ==
  /\ requests[r].at = "deleteMany"
  /\ products' = [products EXCEPT ![requests[r].id].productionSchedule = <<>>]
  /\ requests' = [requests EXCEPT ![r].at = "create",
                                  ![r].pending = DOMAIN requests[r].schedule]
  /\ UNCHANGED <<project, investments, costs, financing, response, stmtVars,
                 depVars, loanVars, indVars, svcVars, analysisVars>>

\* one productionSchedule.create of the Promise.all reaches the table; the
\* creates of a request are in flight together and land in any order
CreateRow(r) ==
  /\ requests[r].at = "create"
  /\ \E k \in requests[r].pending :
       /\ products' = [products EXCEPT ![requests[r].id].productionSchedule =
                         Append(@, requests[r].schedule[k])]
       /\ requests' = [requests EXCEPT ![r].pending = @ \ {k}]
  /\ UNCHANGED <<project, investments, costs, financing, response, stmtVars,
                 depVars, loanVars, indVars, svcVars, analysisVars>>

\* Promise.all has resolved: the created rows are sent in the order of the body
RespondSchedule(r) ==
  /\ requests[r].at = "create" /\ requests[r].pending = {}
  /\ response' = [status |-> 200, route |-> "schedule", data |-> requests[r].schedule]
  /\ requests' = [requests EXCEPT ![r].at = "done"]
  /\ UNCHANGED <<modelVars, stmtVars, depVars, loanVars, indVars, svcVars, analysisVars>>

InitSchedule == ScheduleInit /\ StmtIdle /\ DepIdle /\ LoanIdle /\ IndIdle /\ SvcIdle /\ AnalysisIdle

SpecSchedule ==
  InitSchedule /\ [][\E r \in 1..MaxRequests : FindProduct(r) \/ DeleteMany(r)
                                                \/ CreateRow(r) \/ RespondSchedule(r)]_vars

\* how many times a row is among the rows of a schedule
Occurrences(rows, row) == Cardinality({k \in DOMAIN rows : rows[k] = row})

\* the same rows, in whatever order
SameRows(stored, submitted) ==
  /\ Len(stored) = Len(submitted)
  /\ \A k \in DOMAIN submitted :
       Occurrences(stored, submitted[k]) = Occurrences(submitted, submitted[k])

\* every request is for the stored product with a valid body, and has been
\* answered
AllSchedulesReplaced ==
  \A r \in DOMAIN requests :
    /\ requests[r].id = 1 /\ ScheduleBodyValid(requests[r].schedule)
    /\ requests[r].at = "done"

\* C27: once concurrent PUT /products/:id/schedule requests for one product
\* have all been answered, the stored schedule holds the rows of one of the
\* requests, and no two stored rows have the same year
C27_ScheduleIsOneRequestsRows ==
  AllSchedulesReplaced =>
    LET stored == products[1].productionSchedule
    IN /\ \E r \in DOMAIN requests : SameRows(stored, requests[r].schedule)
       /\ \A j, k \in DOMAIN stored : stored[j].year = stored[k].year => j = k

\* what the loans disbursed by year Y add to the long-term debt of Y
DisbursedLongTermDebt(Y) ==
  RSum([i \in 1..Len(financing) |->
          IF financing[i].disbursementYear <= Y
          THEN LongTermDebtOf(financing[i], Y) ELSE Zero])

\* C28: in the balance sheet of every year Y the long-term debt, and with it
\* the total liabilities, counts only the loans disbursed by Y: a loan with a
\* later disbursementYear adds nothing
C28_OnlyDisbursedLoansAreDebt ==
  \A k \in 1..Len(balanceSheets) :
    /\ balanceSheets[k].longTermDebt = DisbursedLongTermDebt(k - 1)
    /\ balanceSheets[k].totalLiabilities =
         RAdd(balanceSheets[k].currentLiabilities, DisbursedLongTermDebt(k - 1))

\* the discountedCashFlow fields of the cash-flow rows
DiscountedCashFlows(rows) == [i \in 1..Len(rows) |-> rows[i].discountedCashFlow]

\* C29: the discountedCashFlow fields of the rows generateCashFlows returns
\* add up to calculateNPV of the netCashFlow series at the discount rate of the
\* project, and at a discount rate of 0 both are the plain sum of netCashFlow
C29_DiscountedCashFlowsSumToNPV ==
  CashFlowsReturned =>
    /\ RSum(DiscountedCashFlows(cashFlowRows)) =
         calculateNPV(NetCashFlows(cashFlowRows), project.discountRate)
    /\ project.discountRate = Zero =>
         /\ RSum(DiscountedCashFlows(cashFlowRows)) = RSum(NetCashFlows(cashFlowRows))
         /\ calculateNPV(NetCashFlows(cashFlowRows), Zero) =
              RSum(NetCashFlows(cashFlowRows))

\* cash flows of three years and more have been returned, with a flow other
\* than 0 after year 1 and a discount rate other than 0
C29_Witness ==
  /\ CashFlowsReturned /\ Len(cashFlowRows) >= 3
  /\ project.discountRate # Zero
  /\ cashFlowRows[3].netCashFlow # Zero
  /\ cashFlowRows[3].discountedCashFlow # cashFlowRows[3].netCashFlow

\* 0 <= salvageValue <= amount and usefulLife >= 1 for every investment
InvestmentsWellFormed ==
  \A i \in 1..Len(investments) :
    /\ RLe(Zero, investments[i].salvageValue)
    /\ RLe(investments[i].salvageValue, investments[i].amount)
    /\ investments[i].usefulLife >= 1

\* the salvage values of the depreciable assets purchased by year Y
SalvageOfDepreciablePurchased(Y) ==
  RSum([i \in 1..Len(investments) |->
          IF /\ investments[i].year <= Y
             /\ investments[i].category \notin {"land", "working_capital"}
          THEN investments[i].salvageValue ELSE Zero])

\* C30: with 0 <= salvageValue <= amount and usefulLife >= 1 for every
\* investment, fixedAssets never decreases from one balance sheet to the next,
\* and netFixedAssets is fixedAssets less accumulatedDepreciation, at least 0
\* and at least the salvage values of the depreciable assets purchased so far
C30_NetFixedAssetsKeepSalvage ==
  InvestmentsWellFormed =>
    \A k \in 1..Len(balanceSheets) :
      /\ k > 1 => RLe(balanceSheets[k - 1].fixedAssets, balanceSheets[k].fixedAssets)
      /\ balanceSheets[k].netFixedAssets =
           RSub(balanceSheets[k].fixedAssets, balanceSheets[k].accumulatedDepreciation)
      /\ RLe(Zero, balanceSheets[k].netFixedAssets)
      /\ RLe(SalvageOfDepreciablePurchased(k - 1), balanceSheets[k].netFixedAssets)

\* the balance sheets of a project whose machine is written down to its
\* salvage value, the fixed assets having grown and the machine being fully
\* depreciated in the last sheet
C30_Witness ==
  /\ InvestmentsWellFormed /\ Len(balanceSheets) >= 3
  /\ balanceSheets[1].fixedAssets # balanceSheets[2].fixedAssets
  /\ balanceSheets[Len(balanceSheets)].accumulatedDepreciation # Zero
  /\ balanceSheets[Len(balanceSheets)].netFixedAssets =
       SalvageOfDepreciablePurchased(Len(balanceSheets) - 1)

====
